---- MODULE Spec2Model ----
(***************************************************************************)
(* PyTreeNet: tree topology (TreeStructure / Node), the TDVP engine built  *)
(* on it (update-path planning, orthogonality center, partial-tree cache,  *)
(* site / link update state machine), and the time evolution around it    *)
(* (TimeEvolution.run and its results, TrotterSplitting).                  *)
(*                                                                         *)
(* Tensors are not represented numerically.  Two pieces of information     *)
(* about them are tracked instead:                                         *)
(*   iso[n]    the neighbour toward which the tensor at n is an isometry   *)
(*             (None for a tensor that is not known to be an isometry),    *)
(*   cache[k]  for a partial-tree cache entry k = <<A, B>>: the set of     *)
(*             nodes whose tensors were contracted into it (cover) and     *)
(*             whether one of them changed since (fresh).                  *)
(***************************************************************************)
EXTENDS Integers, Sequences, FiniteSets, TLC

VARIABLES
    nodes,                    \* TreeStructure._nodes of the engine's state
    root_id,                  \* TreeStructure._root_id
    pc,                       \* position of the running operation
    driver,                   \* what the caller does: "run", "api", "inspect", "tree", "evolution"
    orthogonality_center_id,  \* state.orthogonality_center_id
    iso,                      \* isometry direction of every state tensor
    cache,                    \* partial_tree_cache
    update_path,
    orthogonalization_path,
    idx,                      \* loop index of run_one_time_step and of run
    call,                     \* the operation in progress / last called
    err,                      \* exception raised by the last call
    reads,                    \* cache entries read by the effective Hamiltonian in use
    pre,                      \* snapshot taken when an operation is entered
    evolution,                \* the TimeEvolution object and its run in progress
    trotter                   \* the TrotterSplitting object

vars == <<nodes, root_id, pc, driver, orthogonality_center_id, iso, cache,
          update_path, orthogonalization_path, idx, call, err, reads, pre,
          evolution, trotter>>

(***************************************************************************)
(* Bounds                                                                  *)
(***************************************************************************)
MaxNodes == 4
MaxPathLen == 3
\* nodes of a tree whose engine is only constructed and inspected
MaxTreeNodes == 6
\* nodes of a tree that is restructured by direct calls
MaxOpNodes == 5
\* time_step_size and final_time, in multiples of one unit of time
MaxStepSize == 12
MaxFinalTime == 13
\* operators whose expectation values a run records
MaxOperators == 2
MaxEvaluationTime == 3

\* an engine that is run again or reset: its final time, its operators, and
\* the runs between two resets
MaxRerunTime == 4

MaxRerunOperators == 1

MaxRuns == 2
\* nodes of a tree that SWAP lists are checked against, and pairs of a list
MaxSwapNodes == 3
MaxSwaps == 2
\* tensor products, items and factors of a Trotter splitting
MaxTensorProducts == 2
MaxSplitting == 2
MaxFactor == 2

\* the open dimensions the nodes of a tree tensor network have
OpenDimensions == {2, 3}

Names == <<"n0", "n1", "n2", "n3", "n4", "n5", "n6", "n7", "n8", "n9">>
NodeIds == {Names[i] : i \in 1..Len(Names)}

None == "None"

\* an identifier that names no node
UnknownId == "unknown"

(***************************************************************************)
(* Python list helpers                                                     *)
(***************************************************************************)
Range(s) == {s[i] : i \in 1..Len(s)}

\* the sequences over S of length at most n
SeqsUpTo(S, n) == UNION {[1..k -> S] : k \in 0..n}

InSeq(x, s) == \E i \in 1..Len(s) : s[i] = x

\* list.index
IndexOf(s, x) == CHOOSE i \in 1..Len(s) : s[i] = x /\ \A j \in 1..(i - 1) : s[j] # x

\* list.remove
RemoveFirst(s, x) ==
    LET i == IndexOf(s, x)
    IN  SubSeq(s, 1, i - 1) \o SubSeq(s, i + 1, Len(s))

Reverse(s) == [i \in 1..Len(s) |-> s[Len(s) + 1 - i]]

\* dict.pop left out: the entry stays in the dict
PopKept(N, k) == N

Pop(N, k) == [x \in DOMAIN N \ {k} |-> N[x]]

Put(N, k, v) == [x \in DOMAIN N \cup {k} |-> IF x = k THEN v ELSE N[x]]

(***************************************************************************)
(* Node                                                                    *)
(***************************************************************************)
Node(parent, children) == [parent |-> parent, children |-> children]

is_root(node) == node.parent = None

is_leaf(node) == Len(node.children) = 0

\* neighbouring_nodes with the last child left out
neighbouring_nodes_short(node) ==
    IF is_root(node) THEN node.children
    ELSE <<node.parent>> \o SubSeq(node.children, 1, Len(node.children) - 1)

neighbouring_nodes(node) ==
    IF is_root(node) THEN node.children ELSE <<node.parent>> \o node.children

is_child_of(node, other_node_id) ==
    IF is_root(node) THEN FALSE ELSE node.parent = other_node_id

is_parent_of(node, other_node_id) == InSeq(other_node_id, node.children)

\* Node.add_parent: the exception it raises and the node it leaves
add_parent(node, parent_id) ==
    IF node.parent # None
    THEN [err |-> "ValueError", node |-> node]
    ELSE [err |-> "none", node |-> [node EXCEPT !.parent = parent_id]]

replace_child(children, child_id, new_child_id) ==
    IF child_id = new_child_id
    THEN children
    ELSE [children EXCEPT ![IndexOf(children, child_id)] = new_child_id]

(***************************************************************************)
(* TreeStructure.  A tree value is [nodes, root_id, err]; err names the    *)
(* exception an operation raised ("none" when it returned).                *)
(***************************************************************************)
Tree(N, r) == [nodes |-> N, root_id |-> r, err |-> "none"]

Raise(T, e) == [T EXCEPT !.err = e]

add_root(T, node_id) ==
    IF T.root_id # None
    THEN Raise(T, "AssertionError")
    ELSE Tree(Put(T.nodes, node_id, Node(None, <<>>)), node_id)

\* add_child_to_parent that sets the parent of the child and leaves the
\* children of the parent as they were
add_child_to_parent_unlisted(T, child_id, child, parent_id) ==
    IF parent_id \notin DOMAIN T.nodes THEN Raise(T, "ValueError")
    ELSE IF child_id \in DOMAIN T.nodes THEN Raise(T, "ValueError")
    ELSE Tree(Put(T.nodes, child_id, Node(parent_id, child.children)), T.root_id)

\* add_child_to_parent(child, parent_id), child being a Node object with the
\* identifier child_id: ensure_existence, _add_node (ensure_uniqueness, then
\* the node is put into the dictionary), child.add_parent, parent.add_child
add_child_to_parent(T, child_id, child, parent_id) ==
    IF parent_id \notin DOMAIN T.nodes THEN Raise(T, "ValueError")
    ELSE IF child_id \in DOMAIN T.nodes THEN Raise(T, "ValueError")
    ELSE LET N1 == Put(T.nodes, child_id, child)
             added == add_parent(child, parent_id)
         IN  IF added.err # "none"
             THEN Raise(Tree(N1, T.root_id), added.err)
             ELSE Tree([N1 EXCEPT ![child_id] = added.node,
                                  ![parent_id].children = Append(@, child_id)],
                       T.root_id)

\* add_parent_to_root that leaves the old root without a parent
add_parent_to_root_unlinked(T, new_root_id, new_root) ==
    IF new_root_id \in DOMAIN T.nodes THEN Raise(T, "ValueError")
    ELSE Tree(Put(T.nodes, new_root_id,
                  [new_root EXCEPT !.children = Append(@, T.root_id)]),
              new_root_id)

\* add_parent_to_root(new_root), new_root being a Node object with the
\* identifier new_root_id: _add_node, new_root.add_child(root_id), then the
\* look-up of the current root (KeyError when there is none), add_parent on
\* it, and the new root_id
add_parent_to_root(T, new_root_id, new_root) ==
    IF new_root_id \in DOMAIN T.nodes THEN Raise(T, "ValueError")
    ELSE LET N1 == Put(T.nodes, new_root_id,
                       [new_root EXCEPT !.children = Append(@, T.root_id)])
         IN  IF T.root_id \notin DOMAIN N1
             THEN Raise(Tree(N1, T.root_id), "KeyError")
             ELSE LET added == add_parent(N1[T.root_id], new_root_id)
                  IN  IF added.err # "none"
                      THEN Raise(Tree(N1, T.root_id), added.err)
                      ELSE Tree([N1 EXCEPT ![T.root_id] = added.node],
                                new_root_id)

RECURSIVE distance_rec_over(_, _, _, _)
RECURSIVE _distance_to_node_rec(_, _, _)
RECURSIVE distance_rec_over_flat(_, _, _, _)
\* the distances of a neighbour's subtree taken over without the edge to it
distance_rec_over_flat(N, nbrs, center, acc) ==
    IF nbrs = <<>> THEN acc
    ELSE distance_rec_over_flat(N, Tail(nbrs), center,
             acc \o _distance_to_node_rec(N, Head(nbrs), center))

\* the loop body of distance_to_node / _distance_to_node_rec over the
\* neighbours nbrs of center: an ordered dict as a sequence of <<id, distance>>
distance_rec_over(N, nbrs, center, acc) ==
    IF nbrs = <<>> THEN acc
    ELSE LET sub == _distance_to_node_rec(N, Head(nbrs), center)
             inc == [i \in 1..Len(sub) |-> <<sub[i][1], sub[i][2] + 1>>]
         IN  distance_rec_over(N, Tail(nbrs), center, acc \o inc)

_distance_to_node_rec(N, center_node_id, last_node_id) ==
    distance_rec_over(N,
                      RemoveFirst(neighbouring_nodes(N[center_node_id]), last_node_id),
                      center_node_id, <<<<center_node_id, 0>>>>)

distance_to_node(N, center_node_id) ==
    distance_rec_over(N, neighbouring_nodes(N[center_node_id]),
                      center_node_id, <<<<center_node_id, 0>>>>)

determine_parentage(N, node_id1, node_id2) ==
    IF is_child_of(N[node_id2], node_id1) THEN <<node_id1, node_id2>>
    ELSE IF is_child_of(N[node_id1], node_id2) THEN <<node_id2, node_id1>>
    ELSE <<>>

\* _replace_node without its loop over the children of the new node: they keep
\* the parent they had
_replace_node_parent_only(N, new_node_id, old_node_id) ==
    LET new_node == N[new_node_id]
    IN  IF is_root(new_node)
        THEN N
        ELSE [N EXCEPT ![new_node.parent].children =
                           replace_child(@, old_node_id, new_node_id)]

_replace_node(N, new_node_id, old_node_id) ==
    LET new_node == N[new_node_id]
        N1 == [x \in DOMAIN N |->
                 IF InSeq(x, new_node.children)
                 THEN [N[x] EXCEPT !.parent = new_node_id]
                 ELSE N[x]]
    IN  IF is_root(new_node)
        THEN N1
        ELSE [N1 EXCEPT ![new_node.parent].children =
                            replace_child(@, old_node_id, new_node_id)]

\* the children of the upper node always put first
total_children_parent_first(parent_node, child_node, parent_is_first) ==
    parent_node.children \o child_node.children

\* combine_nodes: temp = [parent_node, child_node], reversed when the parent
\* is not node_id1; the children of temp[0] extended by those of temp[1]
total_children_of(parent_node, child_node, parent_is_first) ==
    IF parent_is_first
    THEN parent_node.children \o child_node.children
    ELSE child_node.children \o parent_node.children

\* combine_nodes without the replacement of root_id
combine_nodes_root_kept(T, node_id1, node_id2, new_identifier) ==
    LET pc_ids == determine_parentage(T.nodes, node_id1, node_id2)
    IN  IF pc_ids = <<>> THEN Raise(T, "ValueError")
        ELSE
        LET parent_id == pc_ids[1]
            child_id == pc_ids[2]
            new_id == IF new_identifier = ""
                      THEN node_id1 \o "contr" \o node_id2
                      ELSE new_identifier
            parent_node == [T.nodes[parent_id] EXCEPT
                              !.children = RemoveFirst(@, child_id)]
            child_node == T.nodes[child_id]
            total_children == total_children_of(parent_node, child_node,
                                                parent_id = node_id1)
            N1 == Pop(Pop(T.nodes, parent_id), child_id)
            N2 == Put(N1, new_id, Node(parent_node.parent, total_children))
        IN  Tree(_replace_node(N2, new_id, parent_id), T.root_id)

combine_nodes(T, node_id1, node_id2, new_identifier) ==
    LET pc_ids == determine_parentage(T.nodes, node_id1, node_id2)
    IN  IF pc_ids = <<>> THEN Raise(T, "ValueError")
        ELSE
        LET parent_id == pc_ids[1]
            child_id == pc_ids[2]
            new_id == IF new_identifier = ""
                      THEN node_id1 \o "contr" \o node_id2
                      ELSE new_identifier
            parent_node == [T.nodes[parent_id] EXCEPT
                              !.children = RemoveFirst(@, child_id)]
            child_node == T.nodes[child_id]
            total_children == total_children_of(parent_node, child_node,
                                                parent_id = node_id1)
            new_root == IF is_root(parent_node) THEN new_id ELSE T.root_id
            N1 == Pop(Pop(T.nodes, parent_id), child_id)
            N2 == Put(N1, new_id, Node(parent_node.parent, total_children))
        IN  Tree(_replace_node(N2, new_id, parent_id), new_root)

\* split_node with the lower new node put first among the children of the
\* upper one
split_node_child_first(T, old_node_id, node1_id, neighbours1, node2_id, neighbours2) ==
    LET node == T.nodes[old_node_id]
        first_is_parent == is_root(node) \/ InSeq(node.parent, neighbours1)
    IN  IF ~first_is_parent /\ ~InSeq(node.parent, neighbours2)
        THEN Raise(T, "AssertionError")
        ELSE
        LET parent_id == IF first_is_parent THEN node1_id ELSE node2_id
            child_id == IF first_is_parent THEN node2_id ELSE node1_id
            parent_neighbours == IF first_is_parent THEN neighbours1 ELSE neighbours2
            child_neighbours == IF first_is_parent THEN neighbours2 ELSE neighbours1
            parent_children == IF is_root(node)
                               THEN parent_neighbours
                               ELSE RemoveFirst(parent_neighbours, node.parent)
            parent_node == Node(node.parent, <<child_id>> \o parent_children)
            child_node == Node(parent_id, child_neighbours)
            new_root == IF is_root(node) THEN parent_id ELSE T.root_id
            N1 == Put(Put(Pop(T.nodes, old_node_id), parent_id, parent_node),
                      child_id, child_node)
            N2 == _replace_node(N1, child_id, child_id)
        IN  Tree(_replace_node(N2, parent_id, old_node_id), new_root)

split_node(T, old_node_id, node1_id, neighbours1, node2_id, neighbours2) ==
    LET node == T.nodes[old_node_id]
        first_is_parent == is_root(node) \/ InSeq(node.parent, neighbours1)
    IN  IF ~first_is_parent /\ ~InSeq(node.parent, neighbours2)
        THEN Raise(T, "AssertionError")
        ELSE
        LET parent_id == IF first_is_parent THEN node1_id ELSE node2_id
            child_id == IF first_is_parent THEN node2_id ELSE node1_id
            parent_neighbours == IF first_is_parent THEN neighbours1 ELSE neighbours2
            child_neighbours == IF first_is_parent THEN neighbours2 ELSE neighbours1
            parent_children == IF is_root(node)
                               THEN parent_neighbours
                               ELSE RemoveFirst(parent_neighbours, node.parent)
            parent_node == Node(node.parent, Append(parent_children, child_id))
            child_node == Node(parent_id, child_neighbours)
            new_root == IF is_root(node) THEN parent_id ELSE T.root_id
            N1 == Put(Put(Pop(T.nodes, old_node_id), parent_id, parent_node),
                      child_id, child_node)
            N2 == _replace_node(N1, child_id, child_id)
        IN  Tree(_replace_node(N2, parent_id, old_node_id), new_root)

(***************************************************************************)
(* Topology queries the engine makes on its state                          *)
(***************************************************************************)
RECURSIVE find_path_to_root(_, _)
\* the identifiers from node_id up to the root, both included
find_path_to_root(N, node_id) ==
    IF is_root(N[node_id]) THEN <<node_id>>
    ELSE <<node_id>> \o find_path_to_root(N, N[node_id].parent)

\* the tree path from start_id to end_id, both included
path_from_to(N, start_id, end_id) ==
    LET up == find_path_to_root(N, start_id)
        down == find_path_to_root(N, end_id)
        i == IndexOf(up, CHOOSE x \in Range(up) :
                           /\ InSeq(x, down)
                           /\ \A j \in 1..(IndexOf(up, x) - 1) : ~InSeq(up[j], down))
        j == IndexOf(down, up[i])
    IN  SubSeq(up, 1, i) \o Reverse(SubSeq(down, 1, j - 1))

create_link_id(node_id, next_node_id) ==
    "link_" \o node_id \o "_with_" \o next_node_id

(***************************************************************************)
(* Update path planner                                                     *)
(***************************************************************************)
\* max(distances, key=distances.get): the first key with the largest distance
find_start_node_id(N, root) ==
    LET d == distance_to_node(N, root)
        i == CHOOSE k \in 1..Len(d) :
                /\ \A m \in 1..Len(d) : d[m][2] <= d[k][2]
                /\ \A m \in 1..(k - 1) : d[m][2] < d[k][2]
    IN  d[i][1]

RECURSIVE path_for_branch(_, _)
RECURSIVE path_for_branches(_, _)
\* a branch listed from its origin down
path_for_branch_origin_first(N, branch_origin) ==
    <<branch_origin>> \o path_for_branches(N, N[branch_origin].children)

\* a branch that is left toward the root: its children's branches, then itself
path_for_branch(N, branch_origin) ==
    Append(path_for_branches(N, N[branch_origin].children), branch_origin)

path_for_branches(N, ids) ==
    IF ids = <<>> THEN <<>>
    ELSE path_for_branch(N, Head(ids)) \o path_for_branches(N, Tail(ids))

RECURSIVE path_down_branch(_, _)
RECURSIVE path_down_branches(_, _)
\* a branch that is entered from the root: itself, then its children's branches
path_down_branch(N, branch_origin) ==
    <<branch_origin>> \o path_down_branches(N, N[branch_origin].children)

path_down_branches(N, ids) ==
    IF ids = <<>> THEN <<>>
    ELSE path_down_branch(N, Head(ids)) \o path_down_branches(N, Tail(ids))

SelectSeqNot(s, x) == SelectSeq(s, LAMBDA y : y # x)

RECURSIVE path_from_leaves_to_root(_, _, _)
\* main_path[k..]: every node below the root is preceded by the branches of
\* its children that are not on the main path
path_from_leaves_to_root(N, main_path, k) ==
    IF k >= Len(main_path) THEN <<>>
    ELSE LET node_id == main_path[k]
             others == IF k = 1 THEN N[node_id].children
                       ELSE SelectSeqNot(N[node_id].children, main_path[k - 1])
         IN  path_for_branches(N, others) \o <<node_id>>
               \o path_from_leaves_to_root(N, main_path, k + 1)

find_update_path(N, root) ==
    LET start == find_start_node_id(N, root)
        main_path == find_path_to_root(N, start)
        branch_roots == IF Len(main_path) = 1 THEN N[root].children
                        ELSE SelectSeqNot(N[root].children,
                                          main_path[Len(main_path) - 1])
    IN  path_from_leaves_to_root(N, main_path, 1) \o <<root>>
          \o path_down_branches(N, branch_roots)

\* the tree paths with their source left in
find_orthogonalization_path_with_source(N, path) ==
    [i \in 1..(Len(path) - 1) |-> path_from_to(N, path[i], path[i + 1])]

find_orthogonalization_path(N, path) ==
    [i \in 1..(Len(path) - 1) |-> Tail(path_from_to(N, path[i], path[i + 1]))]

(***************************************************************************)
(* Caching path planner                                                    *)
(***************************************************************************)
RECURSIVE _rec_find_caching_path_node_first(_, _, _)
\* every node of the initial path listed before the branches of its children
_rec_find_caching_path_node_first(N, initial_path, k) ==
    LET node_id == initial_path[k]
        children_ids == IF k < Len(initial_path)
                        THEN SelectSeqNot(N[node_id].children, initial_path[k + 1])
                        ELSE N[node_id].children
        here == <<node_id>> \o path_for_branches(N, children_ids)
    IN  IF k < Len(initial_path)
        THEN here \o _rec_find_caching_path_node_first(N, initial_path, k + 1)
        ELSE here

RECURSIVE _rec_find_caching_path(_, _, _)
\* initial_path[k..] is the path from the root to update_path[0]
_rec_find_caching_path(N, initial_path, k) ==
    LET node_id == initial_path[k]
        children_ids == IF k < Len(initial_path)
                        THEN SelectSeqNot(N[node_id].children, initial_path[k + 1])
                        ELSE N[node_id].children
        here == Append(path_for_branches(N, children_ids), node_id)
    IN  IF k < Len(initial_path)
        THEN here \o _rec_find_caching_path(N, initial_path, k + 1)
        ELSE here

\* returns <<caching_path, next_node_id_dict>>
_find_caching_path(N, root, path) ==
    LET initial_path == Reverse(find_path_to_root(N, path[1]))
        caching_path == _rec_find_caching_path(N, initial_path, 1)
        on_path(n) == InSeq(n, initial_path)
        next_node_id_dict ==
            [n \in Range(caching_path) \ {path[1]} |->
                IF on_path(n) THEN initial_path[IndexOf(initial_path, n) + 1]
                ELSE N[n].parent]
    IN  <<caching_path, next_node_id_dict>>

(***************************************************************************)
(* Partial-tree cache.  An entry records which node tensors it summarises  *)
(* (cover) and whether all of them are unchanged since it was computed.    *)
(***************************************************************************)
Entry(cover, fresh) == [cover |-> cover, fresh |-> fresh]

add_entry(C, node_id, next_node_id, entry) == Put(C, <<node_id, next_node_id>>, entry)

\* the tensor at node_id was overwritten: every entry built from it is outdated
TensorChanged(C, node_id) ==
    [k \in DOMAIN C |->
        IF node_id \in C[k].cover THEN Entry(C[k].cover, FALSE) ELSE C[k]]

\* the cache keys contract_any(node_id, next_node_id) reads
contract_any_keys(N, node_id, next_node_id) ==
    {<<m, node_id>> : m \in Range(neighbouring_nodes(N[node_id])) \ {next_node_id}}

\* contract_any: the tensor at node_id with its Hamiltonian tensor, its
\* conjugate and the cached blocks of all neighbours except next_node_id
contract_any(N, C, node_id, next_node_id) ==
    LET keys == contract_any_keys(N, node_id, next_node_id)
    IN  Entry({node_id} \cup UNION {C[k].cover : k \in keys},
              \A k \in keys : C[k].fresh)

\* update_tree_cache(node_id, next_node_id); the KeyError of a missing block
\* leaves the cache as it is
update_tree_cache(N, C, node_id, next_node_id) ==
    IF contract_any_keys(N, node_id, next_node_id) \subseteq DOMAIN C
    THEN add_entry(C, node_id, next_node_id,
                   contract_any(N, C, node_id, next_node_id))
    ELSE C

RECURSIVE init_cache_over_but_last(_, _, _, _)
\* the loop over the caching path ended one node early
init_cache_over_but_last(N, C, caching_path, next_node_id_dict) ==
    IF Len(caching_path) <= 2 THEN C
    ELSE init_cache_over_but_last(N,
             update_tree_cache(N, C, Head(caching_path),
                               next_node_id_dict[Head(caching_path)]),
             Tail(caching_path), next_node_id_dict)

RECURSIVE init_cache_over(_, _, _, _)
init_cache_over(N, C, caching_path, next_node_id_dict) ==
    IF Len(caching_path) <= 1 THEN C
    ELSE init_cache_over(N,
             update_tree_cache(N, C, Head(caching_path),
                               next_node_id_dict[Head(caching_path)]),
             Tail(caching_path), next_node_id_dict)

_init_partial_tree_cache(N, root, C, path) ==
    LET cp == _find_caching_path(N, root, path)
    IN  init_cache_over(N, C, cp[1], cp[2])

\* the cache keys _get_effective_site_hamiltonian(node_id) reads
site_hamiltonian_keys(N, node_id) ==
    {<<m, node_id>> : m \in Range(neighbouring_nodes(N[node_id]))}

\* the cache keys _get_effective_link_hamiltonian(node_id, next_node_id) reads
link_hamiltonian_keys(node_id, next_node_id) ==
    {<<node_id, next_node_id>>, <<next_node_id, node_id>>}

(***************************************************************************)
(* Orthogonality center of the state                                       *)
(***************************************************************************)
\* canonical_form(center): every tensor is made an isometry toward the center
canonical_form(N, center) ==
    [n \in DOMAIN N |-> IF n = center THEN None ELSE path_from_to(N, n, center)[2]]

RECURSIVE move_along_r_only(_, _)
\* a move that absorbs R into the following node but leaves the tensor it
\* came from as it was
move_along_r_only(I, path) ==
    IF Len(path) <= 1 THEN I
    ELSE move_along_r_only([I EXCEPT ![path[2]] = None], Tail(path))

RECURSIVE move_along(_, _)
\* QR at every node of path but the last, R absorbed into the following one
move_along(I, path) ==
    IF Len(path) <= 1 THEN I
    ELSE move_along([I EXCEPT ![path[1]] = path[2], ![path[2]] = None], Tail(path))

\* move_orthogonalization_center(new_center): <<iso, nodes whose tensor changed>>
move_orthogonalization_center(N, I, center, new_center) ==
    IF center = new_center THEN <<I, {}>>
    ELSE LET path == path_from_to(N, center, new_center)
         IN  <<move_along(I, path), Range(path)>>

RECURSIVE TensorsChanged(_, _)
TensorsChanged(C, ids) ==
    IF ids = {} THEN C
    ELSE LET x == CHOOSE y \in ids : TRUE
         IN  TensorsChanged(TensorChanged(C, x), ids \ {x})

MissingBlocks(N, C, node_id, next_node_id) ==
    ~(contract_any_keys(N, node_id, next_node_id) \subseteq DOMAIN C)

RECURSIVE move_orth_loop(_, _, _, _, _)
\* the loop of _move_orth_and_update_cache_for_path over path[i + 1 ..];
\* S = [iso, cache, center, err]
move_orth_loop(N, S, path, i, stop) ==
    IF i >= stop \/ S.err # "none" THEN S
    ELSE LET mv == move_orthogonalization_center(N, S.iso, S.center, path[i + 1])
             C1 == TensorsChanged(S.cache, mv[2])
         IN  move_orth_loop(N,
                 [iso |-> mv[1],
                  cache |-> update_tree_cache(N, C1, path[i], path[i + 1]),
                  center |-> path[i + 1],
                  err |-> IF MissingBlocks(N, C1, path[i], path[i + 1])
                          THEN "KeyError" ELSE "none"],
                 path, i + 1, stop)

\* the assertion on the orthogonality center left out
OrthCenterIsUnchecked(center, node_id) == TRUE

OrthCenterIs(center, node_id) == center = node_id

\* the assertion made before the empty path is let through
_move_orth_and_update_cache_for_path_assert_first(N, I, C, center, path) ==
    IF ~OrthCenterIs(center, IF Len(path) = 0 THEN None ELSE path[1])
    THEN [iso |-> I, cache |-> C, center |-> center, err |-> "AssertionError"]
    ELSE move_orth_loop(N, [iso |-> I, cache |-> C, center |-> center,
                            err |-> "none"],
                        path, 1, Len(path))

\* [iso, cache, center, err]
_move_orth_and_update_cache_for_path(N, I, C, center, path) ==
    IF Len(path) = 0
    THEN [iso |-> I, cache |-> C, center |-> center, err |-> "none"]
    ELSE IF ~OrthCenterIs(center, path[1])
    THEN [iso |-> I, cache |-> C, center |-> center, err |-> "AssertionError"]
    ELSE move_orth_loop(N, [iso |-> I, cache |-> C, center |-> center,
                            err |-> "none"],
                        path, 1, Len(path))

(***************************************************************************)
(* Actions: building the tree of the initial state                         *)
(***************************************************************************)
NoCall == [op |-> "none", node |-> None, next |-> None, path |-> <<>>]

Call(op, node, next, path) == [op |-> op, node |-> node, next |-> next, path |-> path]

EngineUnchanged ==
    UNCHANGED <<driver, orthogonality_center_id, iso, cache, update_path,
                orthogonalization_path, idx, call, reads, pre>>

\* no object has been constructed
NoObject == [class |-> "None"]

\* an empty tree and no engine yet
NothingBuilt ==
    /\ nodes = <<>>
    /\ root_id = None
    /\ pc = "build"
    /\ orthogonality_center_id = None
    /\ iso = <<>>
    /\ cache = <<>>
    /\ update_path = <<>>
    /\ orthogonalization_path = <<>>
    /\ idx = 0
    /\ call = NoCall
    /\ err = "none"
    /\ reads = {}
    /\ pre = {}
    /\ evolution = NoObject
    /\ trotter = NoObject

\* the caller will run time steps or call the engine's operations
Init == NothingBuilt /\ driver = "none"

\* the caller will only construct the engine and read what it planned
InitInspect == NothingBuilt /\ driver = "inspect"

\* the caller will restructure the tree, or construct the engine and call
\* one of its steps
InitTree == NothingBuilt /\ driver = "tree"

\* the names no node of the tree has
UnusedNames == SelectSeq(Names, LAMBDA x : x \notin DOMAIN nodes)

\* the identifier of the next Node object handed to the tree
FreshId == UnusedNames[1]

CanGrow ==
    /\ pc = "build"
    /\ Cardinality(DOMAIN nodes) <
         (CASE driver = "inspect" -> MaxTreeNodes
            [] driver = "tree" -> MaxOpNodes
            [] driver = "swap" -> MaxSwapNodes
            [] OTHER -> MaxNodes)

AddRoot ==
    /\ CanGrow
    /\ root_id = None
    /\ LET T == add_root(Tree(nodes, root_id), FreshId)
       IN  /\ nodes' = T.nodes
           /\ root_id' = T.root_id
           /\ err' = T.err
    /\ UNCHANGED pc
    /\ EngineUnchanged
    /\ UNCHANGED <<evolution, trotter>>

AddChildToParent ==
    /\ CanGrow
    /\ \E parent_id \in DOMAIN nodes :
         LET T == add_child_to_parent(Tree(nodes, root_id), FreshId,
                                      Node(None, <<>>), parent_id)
         IN  /\ nodes' = T.nodes
             /\ root_id' = T.root_id
             /\ err' = T.err
    /\ UNCHANGED pc
    /\ EngineUnchanged
    /\ UNCHANGED <<evolution, trotter>>

AddParentToRoot ==
    /\ CanGrow
    /\ root_id # None
    /\ LET T == add_parent_to_root(Tree(nodes, root_id), FreshId, Node(None, <<>>))
       IN  /\ nodes' = T.nodes
           /\ root_id' = T.root_id
           /\ err' = T.err
    /\ UNCHANGED pc
    /\ EngineUnchanged
    /\ UNCHANGED <<evolution, trotter>>

(***************************************************************************)
(* time_evolve (time_evolution.py)                                         *)
(***************************************************************************)
\* time_evolve with the sign of a forward evolution for both directions
time_evolve_forward_only(psi, hamiltonian, time_difference, forward) ==
    [class |-> "evolved", psi |-> psi, hamiltonian |-> hamiltonian,
     time_difference |-> time_difference, forward |-> forward,
     coefficient |-> -time_difference]

\* time_evolve(psi, hamiltonian, time_difference, forward): the state
\* exp(exponent) @ psi, named by psi and the exponent
\* sign * 1j * hamiltonian * time_difference, of which coefficient is the
\* real factor sign * time_difference.  forward counts as 1 or 0 in
\* sign = -2 * forward + 1
time_evolve(psi, hamiltonian, time_difference, forward) ==
    LET sign == -2 * (IF forward THEN 1 ELSE 0) + 1
    IN  [class |-> "evolved", psi |-> psi, hamiltonian |-> hamiltonian,
         time_difference |-> time_difference, forward |-> forward,
         coefficient |-> sign * time_difference]

\* the time_step_size of the engine, one unit of time.  The engine keeps in
\* evolution the result of its last time_evolve for as long as the evolved
\* tensor is in the state: the split of the updated site, the contraction of
\* the link tensor into the next node and the reset of the orthogonality
\* center replace the tensor
TDVPTimeStep == 1

(***************************************************************************)
(* Actions: the TDVP engine                                                *)
(***************************************************************************)
\* TDVPAlgorithm.__init__: plan the paths, bring the state into canonical
\* form at update_path[0], fill the cache along the caching path
TDVPInit ==
    /\ pc = "build"
    /\ Cardinality(DOMAIN nodes) >= 2
    /\ LET path == find_update_path(nodes, root_id)
       IN  /\ update_path' = path
           /\ orthogonalization_path' = find_orthogonalization_path(nodes, path)
           /\ orthogonality_center_id' = path[1]
           /\ iso' = canonical_form(nodes, path[1])
           /\ cache' = _init_partial_tree_cache(nodes, root_id, <<>>, path)
    /\ \E d \in (IF driver \in {"inspect", "tree"} THEN {driver}
                ELSE {"run", "api"}) :
         /\ driver' = d
         /\ pc' = CASE d = "run" -> "idle"
                   [] d = "api" -> "ready"
                   [] OTHER -> "constructed"
    /\ idx' = 0
    /\ call' = NoCall
    /\ err' = "none"
    /\ UNCHANGED <<nodes, root_id, reads, pre>>
    /\ UNCHANGED <<evolution, trotter>>

\* run_one_time_step is entered: the first update is a site update of
\* update_path[0]
RunOneTimeStep ==
    /\ pc = "idle"
    /\ idx' = 1
    /\ call' = Call("_update_site", update_path[1], None, <<>>)
    /\ pc' = "site_ham"
    /\ err' = "none"
    /\ UNCHANGED <<nodes, root_id, driver, orthogonality_center_id, iso, cache,
                   update_path, orthogonalization_path, reads, pre>>
    /\ UNCHANGED <<evolution, trotter>>

\* _update_site, first half: build the effective site Hamiltonian
SiteHamiltonian ==
    /\ pc = "site_ham"
    /\ reads' = site_hamiltonian_keys(nodes, call.node)
    /\ IF reads' \subseteq DOMAIN cache
       THEN pc' = "site_evolve" /\ err' = "none"
       ELSE pc' = "aborted" /\ err' = "KeyError"
    /\ UNCHANGED <<nodes, root_id, driver, orthogonality_center_id, iso, cache,
                   update_path, orthogonalization_path, idx, call, pre>>
    /\ UNCHANGED <<evolution, trotter>>

\* _update_site, second half: the tensor at the node is evolved forward by
\* time_evolve with the effective site Hamiltonian.
\* run_one_time_step then enters _update_link toward the next node, or, at
\* the last node of the update path, resets for the next time step.
SiteEvolve ==
    /\ pc = "site_evolve"
    /\ cache' = TensorChanged(cache, call.node)
    /\ evolution' = time_evolve(call.node, <<"site", call.node>>,
                                TDVPTimeStep, TRUE)
    /\ IF idx < Len(update_path)
       THEN /\ call' = Call("_update_link", call.node,
                            orthogonalization_path[idx][1], <<>>)
            /\ pc' = "ul_begin"
       ELSE /\ call' = Call("_reset_for_next_time_step", None, None, <<>>)
            /\ pc' = "reset"
    /\ pre' = DOMAIN nodes
    /\ reads' = {}
    /\ UNCHANGED <<nodes, root_id, driver, orthogonality_center_id, iso,
                   update_path, orthogonalization_path, idx, err>>
    /\ UNCHANGED trotter

\* a caller invokes _update_link(node_id, next_node_id) directly
ApiUpdateLink ==
    /\ pc = "ready"
    /\ \E node_id \in DOMAIN nodes, next_node_id \in DOMAIN nodes :
         /\ node_id # next_node_id
         /\ call' = Call("_update_link", node_id, next_node_id, <<>>)
    /\ pc' = "ul_begin"
    /\ err' = "none"
    /\ pre' = DOMAIN nodes
    /\ UNCHANGED <<nodes, root_id, driver, orthogonality_center_id, iso, cache,
                   update_path, orthogonalization_path, idx, reads>>
    /\ UNCHANGED <<evolution, trotter>>

\* where control goes when an operation raises: the run is over, a direct
\* caller may call again
Failed == IF driver = "run" THEN "aborted" ELSE "ready"

\* where control goes when an operation called directly returns
Returned == "ready"

\* _update_link: the assertion on the orthogonality center
UpdateLinkBegin ==
    /\ pc = "ul_begin"
    /\ IF OrthCenterIs(orthogonality_center_id, call.node)
       THEN pc' = "ul_split" /\ err' = "none" /\ call' = call
       ELSE pc' = Failed /\ err' = "AssertionError" /\ call' = NoCall
    /\ UNCHANGED <<nodes, root_id, driver, orthogonality_center_id, iso, cache,
                   update_path, orthogonalization_path, idx, reads, pre>>
    /\ UNCHANGED <<evolution, trotter>>

\* the neighbours _split_updated_site leaves with Q (first) and gives to R
\* (second); <<>> when the two nodes are not connected
split_legs(N, node_id, next_node_id) ==
    LET node == N[node_id]
    IN  IF is_parent_of(node, next_node_id)
        THEN <<(IF is_root(node) THEN <<>> ELSE <<node.parent>>)
                 \o RemoveFirst(node.children, next_node_id),
               <<next_node_id>>>>
        ELSE IF is_child_of(node, next_node_id)
        THEN <<node.children, <<node.parent>>>>
        ELSE <<>>

\* state.split_node_qr(node_id, q_legs, r_legs, q_identifier=node_id,
\* r_identifier=link_id): the topology part
split_node_qr(T, node_id, legs, link_id) ==
    split_node(T, node_id, node_id, legs[1], link_id, legs[2])

\* state.contract_nodes(link_id, next_node_id, new_identifier=next_node_id):
\* the topology part
contract_nodes(T, link_id, next_node_id) ==
    combine_nodes(T, link_id, next_node_id, next_node_id)

\* the isometry directions after the QR split: Q at node_id points to the
\* link tensor R, which takes over the legs to the nodes of legs[2]
split_iso(I, node_id, legs, link_id) ==
    [n \in DOMAIN I \cup {link_id} |->
        IF n = link_id THEN None
        ELSE IF n = node_id THEN link_id
        ELSE IF InSeq(n, legs[2]) /\ I[n] = node_id THEN link_id
        ELSE I[n]]

\* _split_updated_site: QR-split the node toward next_node_id, then
\* _update_cache_after_split
SplitUpdatedSite ==
    /\ pc = "ul_split"
    /\ LET node_id == call.node
           next_node_id == call.next
           legs == split_legs(nodes, node_id, next_node_id)
           link_id == create_link_id(node_id, next_node_id)
       IN  IF legs = <<>>
           THEN /\ err' = "NoConnectionException"
                /\ pc' = Failed
                /\ call' = NoCall
                /\ UNCHANGED <<nodes, root_id, iso, cache>>
           ELSE LET T == split_node_qr(Tree(nodes, root_id), node_id, legs, link_id)
                    C1 == TensorChanged(cache, node_id)
                    missing == MissingBlocks(T.nodes, C1, node_id, link_id)
                IN  /\ nodes' = T.nodes
                    /\ root_id' = T.root_id
                    /\ iso' = split_iso(iso, node_id, legs, link_id)
                    /\ cache' = IF missing THEN C1
                                ELSE add_entry(C1, node_id, next_node_id,
                                         contract_any(T.nodes, C1, node_id, link_id))
                    /\ err' = IF missing THEN "KeyError" ELSE "none"
                    /\ pc' = IF missing THEN "aborted" ELSE "ul_link_ham"
                    /\ call' = call
    /\ UNCHANGED <<driver, orthogonality_center_id, update_path,
                   orthogonalization_path, idx, reads, pre>>
    /\ evolution' = NoObject
    /\ UNCHANGED trotter

\* _time_evolve_link_tensor, first half: build the effective link Hamiltonian
LinkHamiltonian ==
    /\ pc = "ul_link_ham"
    /\ reads' = link_hamiltonian_keys(call.node, call.next)
    /\ IF reads' \subseteq DOMAIN cache
       THEN pc' = "ul_evolve" /\ err' = "none"
       ELSE pc' = "aborted" /\ err' = "KeyError"
    /\ UNCHANGED <<nodes, root_id, driver, orthogonality_center_id, iso, cache,
                   update_path, orthogonalization_path, idx, call, pre>>
    /\ UNCHANGED <<evolution, trotter>>

\* _time_evolve_link_tensor, second half: the link tensor is evolved backward
\* by time_evolve with the effective link Hamiltonian
LinkEvolve ==
    /\ pc = "ul_evolve"
    /\ cache' = TensorChanged(cache, create_link_id(call.node, call.next))
    /\ evolution' = time_evolve(create_link_id(call.node, call.next),
                                <<"link", call.node, call.next>>,
                                TDVPTimeStep, FALSE)
    /\ pc' = "ul_merge"
    /\ reads' = {}
    /\ UNCHANGED <<nodes, root_id, driver, orthogonality_center_id, iso,
                   update_path, orthogonalization_path, idx, call, err, pre>>
    /\ UNCHANGED trotter

\* the isometry directions after the link tensor is contracted into next_node_id
merge_iso(I, link_id, next_node_id) ==
    [n \in DOMAIN I \ {link_id} |->
        IF n = next_node_id THEN None
        ELSE IF I[n] = link_id THEN next_node_id
        ELSE I[n]]

\* _update_link, end: contract the link tensor into the next node and make
\* it the orthogonality center.  run_one_time_step then moves on to the next
\* node of the update path.
Merge ==
    /\ pc = "ul_merge"
    /\ LET link_id == create_link_id(call.node, call.next)
           T == contract_nodes(Tree(nodes, root_id), link_id, call.next)
       IN  /\ nodes' = T.nodes
           /\ root_id' = T.root_id
           /\ iso' = merge_iso(iso, link_id, call.next)
           /\ cache' = TensorChanged(cache, call.next)
    /\ orthogonality_center_id' = call.next
    /\ IF driver = "run"
       THEN /\ idx' = idx + 1
            /\ call' = Call("_move_orth_and_update_cache_for_path", None, None,
                            orthogonalization_path[idx])
            /\ pc' = "move"
       ELSE /\ idx' = idx
            /\ call' = NoCall
            /\ pc' = Returned
    /\ UNCHANGED <<driver, update_path, orthogonalization_path, err, reads, pre>>
    /\ evolution' = NoObject
    /\ UNCHANGED trotter

\* the paths a direct caller passes: the empty path and the tree paths
ApiPaths ==
    {<<>>} \cup
    {p \in {path_from_to(nodes, a, b) : a \in DOMAIN nodes, b \in DOMAIN nodes} :
        Len(p) <= MaxPathLen}

\* a caller invokes _move_orth_and_update_cache_for_path(path) directly
ApiMove ==
    /\ pc = "ready"
    /\ \E path \in ApiPaths :
         call' = Call("_move_orth_and_update_cache_for_path", None, None, path)
    /\ pc' = "move"
    /\ err' = "none"
    /\ pre' = DOMAIN nodes
    /\ UNCHANGED <<nodes, root_id, driver, orthogonality_center_id, iso, cache,
                   update_path, orthogonalization_path, idx, reads>>
    /\ UNCHANGED <<evolution, trotter>>

\* _move_orth_and_update_cache_for_path(call.path).  Within
\* run_one_time_step the site update of update_path[idx] follows.
Move ==
    /\ pc = "move"
    /\ LET R == _move_orth_and_update_cache_for_path(nodes, iso, cache,
                    orthogonality_center_id, call.path)
       IN  /\ iso' = R.iso
           /\ cache' = R.cache
           /\ orthogonality_center_id' = R.center
           /\ err' = R.err
           /\ IF R.err # "none"
              THEN pc' = Failed /\ call' = NoCall
              ELSE IF driver = "run"
              THEN /\ pc' = "site_ham"
                   /\ call' = Call("_update_site", update_path[idx], None, <<>>)
              ELSE pc' = Returned /\ call' = NoCall
    /\ UNCHANGED <<nodes, root_id, driver, update_path, orthogonalization_path,
                   idx, reads, pre>>
    /\ UNCHANGED <<evolution, trotter>>

\* _reset_for_next_time_step: the center goes back to update_path[0] and the
\* cache is filled again along the caching path
Reset ==
    /\ pc = "reset"
    /\ LET mv == move_orthogonalization_center(nodes, iso,
                     orthogonality_center_id, update_path[1])
           C1 == TensorsChanged(cache, mv[2])
       IN  /\ iso' = mv[1]
           /\ cache' = _init_partial_tree_cache(nodes, root_id, C1, update_path)
    /\ orthogonality_center_id' = update_path[1]
    /\ pc' = "idle"
    /\ call' = NoCall
    /\ idx' = 0
    /\ UNCHANGED <<nodes, root_id, driver, update_path, orthogonalization_path,
                   err, reads, pre>>
    /\ evolution' = NoObject
    /\ UNCHANGED trotter

Next ==
    \/ AddRoot
    \/ AddChildToParent
    \/ AddParentToRoot
    \/ TDVPInit
    \/ RunOneTimeStep
    \/ SiteHamiltonian
    \/ SiteEvolve
    \/ ApiUpdateLink
    \/ UpdateLinkBegin
    \/ SplitUpdatedSite
    \/ LinkHamiltonian
    \/ LinkEvolve
    \/ Merge
    \/ ApiMove
    \/ Move
    \/ Reset

Spec == Init /\ [][Next]_vars

\* trees and the construction of the engine on them
NextInspect ==
    \/ AddRoot
    \/ AddChildToParent
    \/ AddParentToRoot
    \/ TDVPInit

SpecInspect == InitInspect /\ [][NextInspect]_vars

(***************************************************************************)
(* Actions: direct calls on the tree and on the tensors of its nodes       *)
(***************************************************************************)
\* the check of node_contraction.contract_nodes left out
node_contraction_contract_nodes_unchecked(N, node1_id, node2_id) == "none"

\* node_contraction.contract_nodes(node1, node2): the exception it raises,
\* "none" when it returns the contracted node
node_contraction_contract_nodes(N, node1_id, node2_id) ==
    IF is_parent_of(N[node1_id], node2_id) THEN "none"
    ELSE IF is_parent_of(N[node2_id], node1_id) THEN "none"
    ELSE "NoConnectionException"

\* the variables of the engine and of a time step
EngineFields ==
    <<driver, orthogonality_center_id, iso, cache, update_path,
      orthogonalization_path, idx, reads, pre>>

\* combine_nodes and split_node are called on the tree that was built, and
\* once more on the small tree a successful call of them has left
Restructurable ==
    /\ driver = "tree"
    /\ \/ pc = "build"
       \/ /\ pc = "restructured"
          /\ err = "none"
          /\ call.op \in {"combine_nodes", "split_node"}
          /\ Cardinality(DOMAIN nodes) < MaxNodes

AfterRestructuring == IF pc = "build" THEN "restructured" ELSE "restructured_again"

\* a caller invokes combine_nodes(node_id1, node_id2, new_identifier) on the
\* tree
CombineNodes ==
    /\ Restructurable
    /\ \E node_id1 \in DOMAIN nodes, node_id2 \in DOMAIN nodes :
         \E new_identifier \in {"", node_id1, node_id2, FreshId} :
            /\ node_id1 # node_id2
            /\ LET T == combine_nodes(Tree(nodes, root_id), node_id1, node_id2,
                                      new_identifier)
               IN  /\ nodes' = T.nodes
                   /\ root_id' = T.root_id
                   /\ err' = T.err
            /\ call' = Call("combine_nodes", node_id1, node_id2,
                            <<new_identifier>>)
    /\ pc' = AfterRestructuring
    /\ UNCHANGED EngineFields
    /\ UNCHANGED <<evolution, trotter>>

\* a caller invokes node_contraction.contract_nodes on two nodes of the tree:
\* a new node is returned, the tree stays
ContractNodes ==
    /\ pc = "build"
    /\ driver = "tree"
    /\ \E node_id1 \in DOMAIN nodes, node_id2 \in DOMAIN nodes :
         /\ node_id1 # node_id2
         /\ err' = node_contraction_contract_nodes(nodes, node_id1, node_id2)
         /\ call' = Call("contract_nodes", node_id1, node_id2, <<>>)
    /\ pc' = "contracted"
    /\ UNCHANGED <<nodes, root_id>>
    /\ UNCHANGED EngineFields
    /\ UNCHANGED <<evolution, trotter>>

\* a caller invokes _split_updated_site(node_id, next_node_id) on the engine
\* it constructed, node_id being the orthogonality center
ApiSplitUpdatedSite ==
    /\ pc = "constructed"
    /\ driver = "tree"
    /\ \E next_node_id \in DOMAIN nodes \ {orthogonality_center_id} :
         call' = Call("_split_updated_site", orthogonality_center_id,
                      next_node_id, <<>>)
    /\ pc' = "ul_split"
    /\ err' = "none"
    /\ pre' = DOMAIN nodes
    /\ UNCHANGED <<nodes, root_id, driver, orthogonality_center_id, iso, cache,
                   update_path, orthogonalization_path, idx, reads>>
    /\ UNCHANGED <<evolution, trotter>>

\* node_id split toward its neighbour next_node_id and the link node merged
\* into next_node_id, as a link update does it: split_node with node_id
\* keeping its identifier and all neighbours but next_node_id, then
\* combine_nodes(link_id, next_node_id, new_identifier=next_node_id)
split_and_merge(T, node_id, next_node_id) ==
    LET link_id == create_link_id(node_id, next_node_id)
        legs == split_legs(T.nodes, node_id, next_node_id)
    IN  combine_nodes(split_node(T, node_id, node_id, legs[1], link_id, legs[2]),
                      link_id, next_node_id, next_node_id)

\* a caller splits a node toward a neighbour and merges the link node into
\* that neighbour
SplitAndMerge ==
    /\ pc = "build"
    /\ driver = "tree"
    /\ \E node_id \in DOMAIN nodes, next_node_id \in DOMAIN nodes :
         /\ split_legs(nodes, node_id, next_node_id) # <<>>
         /\ LET T == split_and_merge(Tree(nodes, root_id), node_id, next_node_id)
            IN  /\ nodes' = T.nodes
                /\ root_id' = T.root_id
                /\ err' = T.err
         /\ call' = Call("split_node, combine_nodes", node_id, next_node_id, <<>>)
    /\ pc' = "restructured"
    /\ UNCHANGED EngineFields
    /\ UNCHANGED <<evolution, trotter>>

\* a second identifier no node has
SecondFreshId == UnusedNames[2]

\* the sublist of s with the elements of S
Sublist(s, S) == SelectSeq(s, LAMBDA x : x \in S)

\* a caller invokes split_node(old_node_id, node1_id, neighbours1, node2_id,
\* neighbours2) with the neighbours of the old node divided between the two
\* lists, the parent of the old node listed or left out, and identifiers that
\* are new or that of the old node
SplitNode ==
    /\ Restructurable
    /\ \E old_node_id \in DOMAIN nodes, parent_listed \in BOOLEAN :
         LET nbrs == neighbouring_nodes(nodes[old_node_id])
             listed == IF parent_listed THEN Range(nbrs)
                       ELSE Range(nbrs) \ {nodes[old_node_id].parent}
         IN  \E S \in SUBSET listed :
             \E ids \in {<<old_node_id, FreshId>>, <<FreshId, old_node_id>>,
                          <<FreshId, SecondFreshId>>} :
                 LET neighbours1 == Sublist(nbrs, S)
                     neighbours2 == Sublist(nbrs, listed \ S)
                     T == split_node(Tree(nodes, root_id), old_node_id,
                                     ids[1], neighbours1, ids[2], neighbours2)
                 IN  /\ nodes' = T.nodes
                     /\ root_id' = T.root_id
                     /\ err' = T.err
                     /\ call' = [op |-> "split_node", node |-> old_node_id,
                                 next |-> ids[2], path |-> neighbours1,
                                 node1_id |-> ids[1],
                                 neighbours2 |-> neighbours2]
    /\ pc' = AfterRestructuring
    /\ UNCHANGED EngineFields
    /\ UNCHANGED <<evolution, trotter>>

NextTree ==
    \/ SplitNode
    \/ SplitAndMerge
    \/ AddRoot
    \/ AddChildToParent
    \/ AddParentToRoot
    \/ CombineNodes
    \/ ContractNodes
    \/ TDVPInit
    \/ ApiSplitUpdatedSite
    \/ SplitUpdatedSite

SpecTree == InitTree /\ [][NextTree]_vars

(***************************************************************************)
(* TimeEvolution (time_evolution.py)                                       *)
(*                                                                         *)
(* Times are multiples of one unit.  The working state is the number of    *)
(* time steps applied to the initial state; the expectation value of an    *)
(* operator is a value named by the operator and that number.              *)
(***************************************************************************)
\* the number of whole time steps in final_time, whatever the fractional part
_compute_num_time_steps_floor(final_time, time_step_size) ==
    final_time \div time_step_size

\* modf(final_time / time_step_size): the fractional part is below 0.1 when
\* ten times the remainder is below time_step_size
_compute_num_time_steps(final_time, time_step_size) ==
    LET integer == final_time \div time_step_size
        remainder == final_time % time_step_size
    IN  IF 10 * remainder < time_step_size THEN integer ELSE integer + 1

\* _results is None: an array of results has at least one row
NoResults == <<>>

\* deepcopy that returns the object it is given
deepcopy_alias(objects, reference) ==
    [objects |-> objects, reference |-> reference]

\* deepcopy(reference): a new object with the value of the one referred to.
\* objects are the state objects that exist, a reference is an index
deepcopy(objects, reference) ==
    [objects |-> Append(objects, objects[reference]),
     reference |-> Len(objects) + 1]

\* the state object the caller hands to the constructor, and its value: no
\* time step has been applied to it
GivenState == 1

InitialValue == 0

\* the objects after self.state has been assigned: the object self.state
\* referred to before is no longer referenced and is gone
referenced(self) ==
    IF self.state = self.initial_state
    THEN [self EXCEPT !.objects = <<@[self.initial_state]>>]
    ELSE [self EXCEPT !.objects = <<@[self.initial_state], @[self.state]>>,
                      !.state = 2]

\* the value of the working state
state_of(self) == self.objects[self.state]

\* __init__ without the check of time_step_size
TimeEvolution_init_any_step(time_step_size, final_time, operators, single) ==
    IF final_time <= 0
    THEN [err |-> "ValueError", self |-> NoObject]
    ELSE [err |-> "none",
          self |-> [class |-> "TimeEvolution",
                    time_step_size |-> time_step_size,
                    final_time |-> final_time,
                    num_time_steps |-> IF time_step_size > 0
                                       THEN _compute_num_time_steps(final_time, time_step_size)
                                       ELSE 0,
                    operators |-> IF single THEN <<operators>> ELSE operators,
                    results |-> NoResults,
                    objects |-> deepcopy(<<InitialValue>>, GivenState).objects,
                    initial_state |-> GivenState,
                    state |-> deepcopy(<<InitialValue>>, GivenState).reference,
                    runs |-> 0, start |-> 0, steps |-> 0,
                    evaluations |-> <<>>, written |-> {}]]

\* TimeEvolution.__init__: the exception it raises and the object it leaves.
\* single: one TensorProduct was given instead of a list.  initial_state
\* refers to the object given, state to its deepcopy; the value of a state
\* object counts the time steps applied to it; runs counts the runs since
\* the construction or the last reset; start, steps, evaluations and written
\* record what the run in progress has done
TimeEvolution_init(time_step_size, final_time, operators, single) ==
    IF time_step_size <= 0 \/ final_time <= 0
    THEN [err |-> "ValueError", self |-> NoObject]
    ELSE [err |-> "none",
          self |-> [class |-> "TimeEvolution",
                    time_step_size |-> time_step_size,
                    final_time |-> final_time,
                    num_time_steps |-> _compute_num_time_steps(final_time, time_step_size),
                    operators |-> IF single THEN <<operators>> ELSE operators,
                    results |-> NoResults,
                    objects |-> deepcopy(<<InitialValue>>, GivenState).objects,
                    initial_state |-> GivenState,
                    state |-> deepcopy(<<InitialValue>>, GivenState).reference,
                    runs |-> 0, start |-> 0, steps |-> 0,
                    evaluations |-> <<>>, written |-> {}]]

\* an entry of np.zeros
Zero == [value |-> "zero"]

\* state.operator_expectation_value(tensor_product) on the state after
\* `state` time steps
ExpectationValue(tensor_product, state) ==
    [value |-> "expectation", operator |-> tensor_product, state |-> state]

\* _init_results with one column per time step
_init_results_every_step(self, evaluation_time) ==
    LET rows == Len(self.operators) + 1
        columns == self.num_time_steps + 1
    IN  [r \in 1..rows |-> [c \in 1..columns |-> IF r < rows THEN Zero ELSE 0]]

\* _init_results: np.zeros((len(operators) + 1, num_time_steps//evaluation_time + 1))
_init_results(self, evaluation_time) ==
    LET rows == Len(self.operators) + 1
        columns == (self.num_time_steps \div evaluation_time) + 1
    IN  [r \in 1..rows |-> [c \in 1..columns |-> IF r < rows THEN Zero ELSE 0]]

\* evaluate_operators: one expectation value per operator
evaluate_operators(self) ==
    [i \in 1..Len(self.operators) |-> ExpectationValue(self.operators[i], state_of(self))]

\* the saving of run with the column index taken for the number of steps in
\* the time entry
save_results_index_as_time(self, i, index) ==
    LET rows == Len(self.results)
        current_results == evaluate_operators(self)
    IN  [self EXCEPT
           !.results = [r \in 1..rows |->
                          [self.results[r] EXCEPT ![index + 1] =
                             IF r < rows THEN current_results[r]
                             ELSE index * self.time_step_size]],
           !.evaluations = Append(@, i),
           !.written = @ \cup {index}]

\* run, lines 177-181: the column index of the results (counted from 0) takes
\* the current expectation values and, in the last row, the time
save_results(self, i, index) ==
    LET rows == Len(self.results)
        current_results == evaluate_operators(self)
    IN  [self EXCEPT
           !.results = [r \in 1..rows |->
                          [self.results[r] EXCEPT ![index + 1] =
                             IF r < rows THEN current_results[r]
                             ELSE i * self.time_step_size]],
           !.evaluations = Append(@, i),
           !.written = @ \cup {index}]

\* the results property: AssertionError while _results is None
results(self) ==
    IF self.results = NoResults
    THEN [err |-> "AssertionError", returned |-> NoResults]
    ELSE [err |-> "none", returned |-> self.results]

\* a caller constructs a TimeEvolution
TimeEvolutionInit ==
    /\ pc = "build"
    /\ driver \in {"evolution", "rerun"}
    /\ \E time_step_size \in -1..MaxStepSize,
          final_time \in -1..(IF driver = "rerun" THEN MaxRerunTime
                              ELSE MaxFinalTime),
          n \in 0..(IF driver = "rerun" THEN MaxRerunOperators
                    ELSE MaxOperators),
          single \in BOOLEAN :
         /\ single => n = 1
         /\ LET operators == IF single THEN 1 ELSE [i \in 1..n |-> i]
                r == TimeEvolution_init(time_step_size, final_time, operators, single)
            IN  /\ evolution' = r.self
                /\ err' = r.err
                /\ pc' = IF r.err = "none" THEN "evolution_ready" ELSE "raised"
         /\ call' = [op |-> "TimeEvolution", time_step_size |-> time_step_size,
                     final_time |-> final_time, single |-> single]
    /\ UNCHANGED <<nodes, root_id, driver, orthogonality_center_id, iso, cache,
                   update_path, orthogonalization_path, idx, reads, pre, trotter>>

\* run(evaluation_time) is entered: _init_results, then the loop starts.  A
\* caller that runs an engine again does so after a run that returned
Run ==
    /\ \/ pc = "evolution_ready"
       \/ pc = "returned" /\ driver = "rerun"
    /\ evolution.runs < MaxRuns
    /\ \E evaluation_time \in 1..MaxEvaluationTime :
         /\ evolution' = [evolution EXCEPT
                            !.results = _init_results(evolution, evaluation_time),
                            !.start = state_of(evolution),
                            !.runs = @ + 1,
                            !.steps = 0,
                            !.evaluations = <<>>,
                            !.written = {}]
         /\ call' = [op |-> "run", evaluation_time |-> evaluation_time,
                     after |-> call.op]
    /\ idx' = 0
    /\ pc' = "running"
    /\ err' = "none"
    /\ UNCHANGED <<nodes, root_id, driver, orthogonality_center_id, iso, cache,
                   update_path, orthogonalization_path, reads, pre, trotter>>

\* one pass of the loop of run for i = idx: run_one_time_step unless i is 0,
\* then the evaluation when i is a multiple of evaluation_time.  The time
\* step and the evaluation are the subclass's and the state's: each returns
\* or raises
RunLoop ==
    /\ pc = "running"
    /\ idx <= evolution.num_time_steps
    /\ \E step_raises \in BOOLEAN, evaluation_raises \in BOOLEAN :
         LET i == idx
             evaluation_time == call.evaluation_time
             stepped == IF i # 0
                        THEN [evolution EXCEPT !.objects[evolution.state] = @ + 1,
                                                !.steps = @ + 1]
                        ELSE evolution
             evaluates == i % evaluation_time = 0 /\ Len(evolution.results) > 0
         IN  IF i # 0 /\ step_raises
             THEN /\ evolution' = [evolution EXCEPT !.steps = @ + 1]
                  /\ err' = "NumericError"
                  /\ pc' = "run_raised"
                  /\ UNCHANGED idx
             ELSE IF evaluates /\ evaluation_raises
             THEN /\ evolution' = stepped
                  /\ err' = "NumericError"
                  /\ pc' = "run_raised"
                  /\ UNCHANGED idx
             ELSE /\ evolution' = IF evaluates
                                  THEN save_results(stepped, i, i \div evaluation_time)
                                  ELSE stepped
                  /\ idx' = idx + 1
                  /\ UNCHANGED <<pc, err>>
    /\ UNCHANGED <<nodes, root_id, driver, orthogonality_center_id, iso, cache,
                   update_path, orthogonalization_path, call, reads, pre, trotter>>

\* the loop of run is over and run returns (no filepath given)
RunReturn ==
    /\ pc = "running"
    /\ idx = evolution.num_time_steps + 1
    /\ pc' = "returned"
    /\ UNCHANGED <<nodes, root_id, driver, orthogonality_center_id, iso, cache,
                   update_path, orthogonalization_path, idx, call, err, reads,
                   pre, evolution, trotter>>

(***************************************************************************)
(* SWAPlist and TrotterStep (trotter.py)                                   *)
(***************************************************************************)
\* an argument left at None, and one that is given
NoSwaps == [is_none |-> TRUE]

Swaps(swap_list) == [is_none |-> FALSE, items |-> swap_list]

\* dim = None
NoDim == 0

\* SWAPlist.__init__(swap_list): the loop over swap_list comes before the
\* test for None, and iterating over None raises TypeError
SWAPlist_init(swap_list) ==
    IF swap_list.is_none
    THEN [err |-> "TypeError", self |-> <<>>]
    ELSE IF \E i \in 1..Len(swap_list.items) : Len(swap_list.items[i]) # 2
    THEN [err |-> "ValueError", self |-> <<>>]
    ELSE [err |-> "none", self |-> swap_list.items]

\* swap_gate(dimension=dim) as an operator on the two nodes of the pair
SwapOperator(swap_pair, dim) ==
    [operator |-> "swap", nodes |-> swap_pair, dim |-> dim]

\* into_operators with the operators in the reverse order of the list
into_operators_reversed(swap_list, dim) ==
    IF dim = NoDim /\ Len(swap_list) # 0
    THEN [err |-> "ValueError", returned |-> <<>>]
    ELSE [err |-> "none",
          returned |-> [i \in 1..Len(swap_list) |->
                          SwapOperator(swap_list[Len(swap_list) + 1 - i], dim)]]

\* SWAPlist.into_operators(ttn=None, dim): ValueError when no dimension is
\* given for a list that is not empty
into_operators(swap_list, dim) ==
    IF dim = NoDim /\ Len(swap_list) # 0
    THEN [err |-> "ValueError", returned |-> <<>>]
    ELSE [err |-> "none",
          returned |-> [i \in 1..Len(swap_list) |-> SwapOperator(swap_list[i], dim)]]

\* the SWAPlist an argument of TrotterStep.__init__ becomes: SWAPlist() when
\* it is None
swaps_or_default(swaps) ==
    IF swaps.is_none THEN SWAPlist_init(NoSwaps)
    ELSE [err |-> "none", self |-> swaps.items]

\* TrotterStep.__init__(operator, factor, swaps_before, swaps_after)
TrotterStep_init(operator, factor, swaps_before, swaps_after) ==
    LET before == swaps_or_default(swaps_before)
        after == swaps_or_default(swaps_after)
    IN  IF before.err # "none" THEN [err |-> before.err, self |-> NoObject]
        ELSE IF after.err # "none" THEN [err |-> after.err, self |-> NoObject]
        ELSE [err |-> "none",
              self |-> [class |-> "TrotterStep",
                        operator |-> operator,
                        factor |-> factor,
                        swaps_before |-> before.self,
                        swaps_after |-> after.self]]

\* TrotterStep.realise_swaps(ttn=None, dim): the two lists of swap operators
realise_swaps(self, dim) ==
    LET swap_tensors_before == into_operators(self.swaps_before, dim)
        swap_tensors_after == into_operators(self.swaps_after, dim)
    IN  IF swap_tensors_before.err # "none"
        THEN [err |-> swap_tensors_before.err, returned |-> <<>>]
        ELSE IF swap_tensors_after.err # "none"
        THEN [err |-> swap_tensors_after.err, returned |-> <<>>]
        ELSE [err |-> "none",
              returned |-> <<swap_tensors_before.returned,
                             swap_tensors_after.returned>>]

\* the pairs of node identifiers a caller swaps
SwapPairs == {<<"n0", "n1">>, <<"n1", "n2">>}

\* the SWAPlist objects a caller has constructed from lists of pairs
SWAPlists == {SWAPlist_init(Swaps(l)).self : l \in SeqsUpTo(SwapPairs, MaxSwaps)}

(***************************************************************************)
(* TrotterSplitting (trotter.py)                                           *)
(*                                                                         *)
(* An item of a splitting is a Python value: its type and its elements,    *)
(* for an int the number alone.                                            *)
(***************************************************************************)
IntItem(i) == [type |-> "int", value |-> <<i>>]

TupleItem(t) == [type |-> "tuple", value |-> t]

ListItem(l) == [type |-> "list", value |-> l]

\* the splitting items a caller passes for n tensor products: indices,
\* tuples of an index and up to two factors and the empty tuple, and lists
\* of an index and a factor
SplittingItems(n) ==
    LET indices == 0..(n - 1)
        factors == 1..MaxFactor
    IN  {IntItem(i) : i \in indices}
          \cup {TupleItem(<<>>)}
          \cup {TupleItem(<<i>>) : i \in indices}
          \cup {TupleItem(<<i, f>>) : i \in indices, f \in factors}
          \cup {TupleItem(<<i, f, 1>>) : i \in indices, f \in factors}
          \cup {ListItem(<<i, 1>>) : i \in indices}

\* the argument splitting: None, or a list of items
NoSplitting == [is_none |-> TRUE]

SplittingList(items) == [is_none |-> FALSE, items |-> items]

\* the loop of __init__ over the given splitting: the tuples it has appended,
\* or the exception it raises at the first item that is no int and no tuple
RECURSIVE splitting_of(_)
splitting_of(items) ==
    IF items = <<>> THEN [err |-> "none", splitting |-> <<>>]
    ELSE LET item == Head(items)
             rest == splitting_of(Tail(items))
         IN  IF item.type = "int"
             THEN [rest EXCEPT !.splitting = <<<<item.value[1], 1>>>> \o @]
             ELSE IF item.type = "tuple"
             THEN [rest EXCEPT !.splitting = <<item.value>> \o @]
             ELSE [err |-> "TypeError", splitting |-> <<>>]

\* TrotterSplitting.__init__: the exception it raises and the object it
\* leaves.  swaps_before and swaps_after are lists of SWAPlists or None
TrotterSplitting_init(tensor_products, splitting, swaps_before, swaps_after) ==
    LET given == IF splitting.is_none
                 THEN [err |-> "none",
                       splitting |-> [i \in 1..Len(tensor_products) |-> <<i - 1, 1>>]]
                 ELSE splitting_of(splitting.items)
    IN  IF given.err # "none"
        THEN [err |-> given.err, self |-> NoObject]
        ELSE [err |-> "none",
              self |-> [class |-> "TrotterSplitting",
                        tensor_products |-> tensor_products,
                        splitting |-> given.splitting,
                        swaps_before |->
                          IF swaps_before.is_none
                          THEN [i \in 1..Len(given.splitting) |->
                                  SWAPlist_init(Swaps(<<>>)).self]
                          ELSE swaps_before.items,
                        swaps_after |->
                          IF swaps_after.is_none
                          THEN [i \in 1..Len(given.splitting) |->
                                  SWAPlist_init(Swaps(<<>>)).self]
                          ELSE swaps_after.items]]

\* tensor_product.exp(factor) for factor = -1j * split[1] * delta_time
Exponential(tensor_product, factor) ==
    [operator |-> "exp", tensor_product |-> tensor_product, factor |-> factor]

\* exponentiate_splitting(delta_time, ttn=None, dim): the operators of one
\* time step, or the exception raised in the first pass of the loop that
\* fails: IndexError when split[0] or split[1] does not exist, ValueError
\* from into_operators.  A factor -1j * x is written as the number -x
RECURSIVE exponentiate_from(_, _, _, _)
exponentiate_from(self, delta_time, dim, i) ==
    IF i > Len(self.splitting) THEN [err |-> "none", unitary_operators |-> <<>>]
    ELSE LET split == self.splitting[i]
         IN  IF Len(split) < 2
             THEN [err |-> "IndexError", unitary_operators |-> <<>>]
             ELSE LET tensor_product == self.tensor_products[split[1] + 1]
                      factor == -(split[2] * delta_time)
                      swaps_before == into_operators(self.swaps_before[i], dim)
                      swaps_after == into_operators(self.swaps_after[i], dim)
                      rest == exponentiate_from(self, delta_time, dim, i + 1)
                  IN  IF swaps_before.err # "none"
                      THEN [err |-> swaps_before.err, unitary_operators |-> <<>>]
                      ELSE IF swaps_after.err # "none"
                      THEN [err |-> swaps_after.err, unitary_operators |-> <<>>]
                      ELSE IF rest.err # "none" THEN rest
                      ELSE [rest EXCEPT !.unitary_operators =
                              swaps_before.returned
                                \o <<Exponential(tensor_product, factor)>>
                                \o swaps_after.returned \o @]

exponentiate_splitting(self, delta_time, dim) ==
    exponentiate_from(self, delta_time, dim, 1)

\* a SWAPlist of k swaps along the chain n0, n1, n2
SwapRun(k) == [j \in 1..k |-> IF j % 2 = 1 THEN <<"n0", "n1">> ELSE <<"n1", "n2">>]

\* the lists of SWAPlists a caller gives for a splitting of n entries: the
\* lists grow from entry to entry, those after are one swap ahead
SwapsBeforeFor(n) == [i \in 1..n |-> SwapRun((i - 1) % (MaxSwaps + 1))]

SwapsAfterFor(n) == [i \in 1..n |-> SwapRun(i % (MaxSwaps + 1))]

\* a caller constructs a TrotterSplitting with a splitting or with None, and
\* with one SWAPlist per entry before and after, or None
TrotterSplittingInit ==
    /\ pc = "build"
    /\ driver = "evolution"
    /\ \E n \in 1..MaxTensorProducts :
         \E splitting \in {SplittingList(items) :
                              items \in SeqsUpTo(SplittingItems(n), MaxSplitting)}
                           \cup {NoSplitting} :
            LET tensor_products == [i \in 1..n |-> i]
                entries == IF splitting.is_none THEN n ELSE Len(splitting.items)
            IN  \E swaps_before \in {NoSwaps, Swaps(SwapsBeforeFor(entries))},
                   swaps_after \in {NoSwaps, Swaps(SwapsAfterFor(entries))} :
                   LET r == TrotterSplitting_init(tensor_products, splitting,
                                                  swaps_before, swaps_after)
                   IN  /\ trotter' = r.self
                       /\ err' = r.err
                       /\ pc' = IF r.err = "none" THEN "splitting_ready"
                                ELSE "raised"
                       /\ call' = [op |-> "TrotterSplitting",
                                   splitting |-> splitting,
                                   swaps_before |-> swaps_before,
                                   swaps_after |-> swaps_after]
    /\ UNCHANGED <<nodes, root_id, driver, orthogonality_center_id, iso, cache,
                   update_path, orthogonalization_path, idx, reads, pre, evolution>>

\* a caller invokes exponentiate_splitting(delta_time, dim=dim) on the
\* TrotterSplitting, with or without a dimension
ExponentiateSplitting ==
    /\ pc = "splitting_ready"
    /\ \E delta_time \in 1..MaxFactor, dim \in {NoDim} \cup OpenDimensions :
         LET r == exponentiate_splitting(trotter, delta_time, dim)
         IN  /\ err' = r.err
             /\ call' = [op |-> "exponentiate_splitting",
                         delta_time |-> delta_time,
                         dim |-> dim,
                         returned |-> r.unitary_operators]
    /\ pc' = "exponentiated"
    /\ UNCHANGED <<nodes, root_id, driver, orthogonality_center_id, iso, cache,
                   update_path, orthogonalization_path, idx, reads, pre,
                   evolution, trotter>>

(***************************************************************************)
(* Actions: TrotterStep                                                    *)
(***************************************************************************)
\* a caller constructs a TrotterStep, each of swaps_before and swaps_after a
\* SWAPlist or left at None
TrotterStepInit ==
    /\ pc = "build"
    /\ driver = "evolution"
    /\ \E factor \in 1..MaxFactor,
          swaps_before \in {NoSwaps} \cup {Swaps(l) : l \in SWAPlists},
          swaps_after \in {NoSwaps} \cup {Swaps(l) : l \in SWAPlists} :
         LET r == TrotterStep_init(1, factor, swaps_before, swaps_after)
         IN  /\ trotter' = r.self
             /\ err' = r.err
             /\ pc' = IF r.err = "none" THEN "step_ready" ELSE "raised"
             /\ call' = [op |-> "TrotterStep", swaps_before |-> swaps_before,
                         swaps_after |-> swaps_after]
    /\ UNCHANGED <<nodes, root_id, driver, orthogonality_center_id, iso, cache,
                   update_path, orthogonalization_path, idx, reads, pre, evolution>>

\* a caller invokes realise_swaps(dim=dim) on the TrotterStep, with or
\* without a dimension
RealiseSwaps ==
    /\ pc = "step_ready"
    /\ \E dim \in {NoDim} \cup OpenDimensions :
         LET r == realise_swaps(trotter, dim)
         IN  /\ err' = r.err
             /\ call' = [op |-> "realise_swaps", dim |-> dim,
                         returned |-> r.returned]
    /\ pc' = "swaps_realised"
    /\ UNCHANGED <<nodes, root_id, driver, orthogonality_center_id, iso, cache,
                   update_path, orthogonalization_path, idx, reads, pre,
                   evolution, trotter>>

\* reset_to_initial_state: self.state = deepcopy(self._intital_state)
reset_to_initial_state(self) ==
    LET copy == deepcopy(self.objects, self.initial_state)
    IN  referenced([self EXCEPT !.objects = copy.objects,
                                !.state = copy.reference])

\* a caller invokes reset_to_initial_state on an engine that is not running
ResetToInitialState ==
    /\ pc \in {"evolution_ready", "returned"}
    /\ driver = "rerun"
    /\ evolution' = [reset_to_initial_state(evolution) EXCEPT !.runs = 0]
    /\ call' = [op |-> "reset_to_initial_state"]
    /\ pc' = "evolution_ready"
    /\ UNCHANGED <<nodes, root_id, driver, orthogonality_center_id, iso, cache,
                   update_path, orthogonalization_path, idx, err, reads, pre,
                   trotter>>

\* the caller will construct a TimeEvolution, run it, and run it again or
\* reset it
InitRerun == NothingBuilt /\ driver = "rerun"

NextRerun ==
    \/ TimeEvolutionInit
    \/ Run
    \/ RunLoop
    \/ RunReturn
    \/ ResetToInitialState

SpecRerun == InitRerun /\ [][NextRerun]_vars

\* the caller will construct a TimeEvolution and run it, or a TrotterSplitting
\* and exponentiate it
InitEvolution == NothingBuilt /\ driver = "evolution"

NextEvolution ==
    \/ TimeEvolutionInit
    \/ Run
    \/ RunLoop
    \/ RunReturn
    \/ TrotterSplittingInit
    \/ ExponentiateSplitting
    \/ TrotterStepInit
    \/ RealiseSwaps

SpecEvolution == InitEvolution /\ [][NextEvolution]_vars

(***************************************************************************)
(* SWAPlist (trotter.py)                                                   *)
(***************************************************************************)

\* one pass of the loop of is_compatible_with_ttn: returned is FALSE when the
\* pass returns False, TRUE when the loop goes on; KeyError when ttn.nodes
\* has no swap_pair[1].  Line 62 reads
\* `if not swap_pair[1] not in node1.neighbouring_nodes()`
pair_is_compatible(swap_pair, N, open_dimension) ==
    IF swap_pair[1] \notin DOMAIN N
    THEN [err |-> "none", returned |-> FALSE]
    ELSE IF ~(~InSeq(swap_pair[2], neighbouring_nodes(N[swap_pair[1]])))
    THEN [err |-> "none", returned |-> FALSE]
    ELSE IF swap_pair[2] \notin DOMAIN N
    THEN [err |-> "KeyError", returned |-> FALSE]
    ELSE IF open_dimension[swap_pair[1]] # open_dimension[swap_pair[2]]
    THEN [err |-> "none", returned |-> FALSE]
    ELSE [err |-> "none", returned |-> TRUE]

\* SWAPlist.is_compatible_with_ttn: the loop over the pairs
RECURSIVE is_compatible_with_ttn(_, _, _)
is_compatible_with_ttn(swap_list, N, open_dimension) ==
    IF swap_list = <<>> THEN [err |-> "none", returned |-> TRUE]
    ELSE LET r == pair_is_compatible(Head(swap_list), N, open_dimension)
         IN  IF r.err # "none" \/ ~r.returned THEN r
             ELSE is_compatible_with_ttn(Tail(swap_list), N, open_dimension)

\* a caller invokes is_compatible_with_ttn on a SWAPlist of pairs of
\* identifiers and the tree that was built, whose nodes have open dimensions
IsCompatibleWithTTN ==
    /\ pc = "build"
    /\ driver = "swap"
    /\ root_id # None
    /\ \E swap_list \in SeqsUpTo((DOMAIN nodes \cup {UnknownId})
                                   \X (DOMAIN nodes \cup {UnknownId}), MaxSwaps),
          open_dimension \in [DOMAIN nodes -> OpenDimensions] :
         LET r == is_compatible_with_ttn(swap_list, nodes, open_dimension)
         IN  /\ err' = r.err
             /\ call' = [op |-> "is_compatible_with_ttn",
                         swap_list |-> swap_list,
                         open_dimension |-> open_dimension,
                         returned |-> r.returned]
    /\ pc' = "checked"
    /\ UNCHANGED <<nodes, root_id, driver, orthogonality_center_id, iso, cache,
                   update_path, orthogonalization_path, idx, reads, pre,
                   evolution, trotter>>

(***************************************************************************)
(* Actions: construction calls with any argument, and Node.add_parent      *)
(***************************************************************************)
\* a caller calls add_child_to_parent with a Node object child whose identifier
\* is new or already in the tree and that has a parent already or none, and a
\* parent_id that is in the tree or not
AddChildToParentCall ==
    /\ CanGrow
    /\ driver = "construct"
    /\ \E child_id \in DOMAIN nodes \cup {FreshId},
          parent \in DOMAIN nodes \cup {None, UnknownId},
          parent_id \in DOMAIN nodes \cup {UnknownId} :
         LET T == add_child_to_parent(Tree(nodes, root_id), child_id,
                                      Node(parent, <<>>), parent_id)
         IN  /\ nodes' = T.nodes
             /\ root_id' = T.root_id
             /\ err' = T.err
             /\ pc' = IF T.err = "none" THEN "build" ELSE "raised"
             /\ call' = Call("add_child_to_parent", child_id, parent_id, <<>>)
    /\ UNCHANGED <<driver, orthogonality_center_id, iso, cache, update_path,
                   orthogonalization_path, idx, reads, pre, evolution, trotter>>

\* a caller calls add_parent_to_root with a Node object whose identifier is
\* new or already in the tree, on a tree with or without a root
AddParentToRootCall ==
    /\ CanGrow
    /\ driver = "construct"
    /\ \E new_root_id \in DOMAIN nodes \cup {FreshId} :
         LET T == add_parent_to_root(Tree(nodes, root_id), new_root_id,
                                     Node(None, <<>>))
         IN  /\ nodes' = T.nodes
             /\ root_id' = T.root_id
             /\ err' = T.err
             /\ pc' = IF T.err = "none" THEN "build" ELSE "raised"
             /\ call' = Call("add_parent_to_root", new_root_id, None, <<>>)
    /\ UNCHANGED <<driver, orthogonality_center_id, iso, cache, update_path,
                   orthogonalization_path, idx, reads, pre, evolution, trotter>>

\* a caller calls add_parent(parent_id) on a Node object of the tree
NodeAddParent ==
    /\ pc = "build"
    /\ driver = "construct"
    /\ \E node_id \in DOMAIN nodes, parent_id \in DOMAIN nodes \cup {FreshId} :
         LET added == add_parent(nodes[node_id], parent_id)
         IN  /\ nodes' = [nodes EXCEPT ![node_id] = added.node]
             /\ err' = added.err
             /\ call' = Call("add_parent", node_id, parent_id, <<>>)
    /\ pc' = "parent_added"
    /\ UNCHANGED <<root_id, driver, orthogonality_center_id, iso, cache,
                   update_path, orthogonalization_path, idx, reads, pre,
                   evolution, trotter>>

\* the caller will build a tree, with calls that may fail
InitConstruct == NothingBuilt /\ driver = "construct"

NextConstruct ==
    \/ AddRoot
    \/ AddChildToParent
    \/ AddParentToRoot
    \/ AddChildToParentCall
    \/ AddParentToRootCall
    \/ NodeAddParent

SpecConstruct == InitConstruct /\ [][NextConstruct]_vars

\* the caller will build a tree and check a SWAPlist against it
InitSwap == NothingBuilt /\ driver = "swap"

NextSwap ==
    \/ AddRoot
    \/ AddChildToParent
    \/ AddParentToRoot
    \/ IsCompatibleWithTTN

SpecSwap == InitSwap /\ [][NextSwap]_vars

(***************************************************************************)
(* Reference notions the claims are stated with                            *)
(***************************************************************************)
IsLinkId(n) == n \notin NodeIds

\* the node that carries the non-isometric tensor
EffectiveCenter ==
    IF \E n \in DOMAIN nodes : IsLinkId(n)
    THEN CHOOSE n \in DOMAIN nodes : IsLinkId(n)
    ELSE orthogonality_center_id

Adjacent(N, a, b) ==
    a \in DOMAIN N /\ b \in DOMAIN N /\ (N[a].parent = b \/ N[b].parent = a)

RECURSIVE Reach(_, _, _)
\* the nodes connected to those of S without passing through a node of B
Reach(N, S, B) ==
    LET S1 == S \cup {n \in DOMAIN N \ B : \E m \in S : Adjacent(N, n, m)}
    IN  IF S1 = S THEN S ELSE Reach(N, S1, B)

\* the nodes of the subtree hanging off A away from B (link nodes carry no
\* site of their own)
Side(N, A, B) == Reach(N, {A}, {B} \cup {n \in DOMAIN N : IsLinkId(n)})

\* entry k of the cache equals the explicit contraction of its subtree
ExactEntry(k) ==
    /\ k \in DOMAIN cache
    /\ cache[k].fresh
    /\ cache[k].cover = Side(nodes, k[1], k[2])

\* the sites of the state (every node but a transient link node)
Sites == {n \in DOMAIN nodes : ~IsLinkId(n)}

\* the effective Hamiltonian in use is being applied to a tensor
HamiltonianInUse == pc \in {"site_evolve", "ul_evolve"}

(***************************************************************************)
(* C1  Cache consistency.  Whenever the engine has built an effective site *)
(* or link Hamiltonian, every cache entry it read exists, is not outdated  *)
(* by a later change of a tensor of its subtree and summarises exactly the *)
(* subtree hanging off its source node, and the entries read cover every   *)
(* site but the one the site Hamiltonian acts on: the result equals the    *)
(* explicit full contraction.  No read ever fails on a missing entry.      *)
(***************************************************************************)
C1_CacheConsistency ==
    /\ err # "KeyError"
    /\ HamiltonianInUse =>
         /\ \A k \in reads : ExactEntry(k)
         /\ UNION {cache[k].cover : k \in reads}
              = IF pc = "site_evolve" THEN Sites \ {call.node} ELSE Sites

C1_Witness ==
    /\ pc = "site_evolve"
    /\ idx >= 2
    /\ Cardinality(reads) >= 2
    /\ \A k \in reads : ExactEntry(k)

\* _update_link or _move_orth_and_update_cache_for_path is entered with the
\* orthogonality center elsewhere than at the node it starts from
WrongCenterCall ==
    \/ pc = "ul_begin" /\ orthogonality_center_id # call.node
    \/ /\ pc = "move"
       /\ Len(call.path) > 0
       /\ orthogonality_center_id # call.path[1]

(***************************************************************************)
(* C2  _update_link(current, next) entered when the orthogonality center   *)
(* is not current, and _move_orth_and_update_cache_for_path(path) entered  *)
(* with a non-empty path that does not start at the orthogonality center,  *)
(* raise AssertionError; the call does not go on, and the center, the      *)
(* nodes, the tensors and the cache are as before.                         *)
(***************************************************************************)
C2_WrongCenterFails ==
    [][WrongCenterCall =>
         /\ err' = "AssertionError"
         /\ pc' \in {"ready", "aborted"}
         /\ UNCHANGED <<nodes, root_id, orthogonality_center_id, iso, cache>>]_vars

C2_Witness ==
    /\ err = "AssertionError"
    /\ pc = "ready"
    /\ orthogonality_center_id \in DOMAIN nodes
    /\ Cardinality(DOMAIN cache) >= 2

(***************************************************************************)
(* C3  When _update_link(current, next) completes (center at current, next *)
(* adjacent to current), the orthogonality center is next, the link        *)
(* identifier create_link_id(current, next) is not a node of the state,    *)
(* and the set of node identifiers is the one from before the call, with   *)
(* current and next both in it.                                            *)
(***************************************************************************)
C3_UpdateLinkResult ==
    [][pc = "ul_merge" =>
         /\ orthogonality_center_id' = call.next
         /\ create_link_id(call.node, call.next) \notin DOMAIN nodes'
         /\ DOMAIN nodes' = pre
         /\ {call.node, call.next} \subseteq DOMAIN nodes'
         /\ err' = "none"]_vars

\* a link update of a sweep has just completed at a node that was reached by
\* an earlier link update
C3_Witness ==
    /\ driver = "run"
    /\ pc = "move"
    /\ idx >= 3
    /\ orthogonality_center_id = call.path[1]
    /\ DOMAIN nodes = pre
    /\ \A n \in DOMAIN nodes : ~IsLinkId(n)

\* the neighbours of a node as the tree records them
Neighbours(n) == Range(neighbouring_nodes(nodes[n]))

\* the split of a link update has been done and its merge has not
LinkNodePresent == pc \in {"ul_link_ham", "ul_evolve", "ul_merge"}

(***************************************************************************)
(* C4  Order of the steps of a link update.  Before the split the link     *)
(* node does not exist.  From the split to the merge current keeps its     *)
(* identifier, the link node create_link_id(current, next) sits between    *)
(* current and next (it is the only connection of the two), and no other   *)
(* link node exists.  A value cache entry (current, next) has before the    *)
(* split is outdated.  While the effective link Hamiltonian is built and   *)
(* the link tensor is evolved, cache entry (current, next) is the one      *)
(* computed from the tensor Q the split left at current: it is not         *)
(* outdated and it is among the entries the link Hamiltonian read.  After  *)
(* the merge no link node is left.                                         *)
(***************************************************************************)
C4_LinkUpdateOrder ==
    LET link_id == create_link_id(call.node, call.next)
    IN  /\ ~LinkNodePresent => \A n \in DOMAIN nodes : ~IsLinkId(n)
        /\ pc = "ul_split" /\ <<call.node, call.next>> \in DOMAIN cache =>
             ~cache[<<call.node, call.next>>].fresh
        /\ LinkNodePresent =>
             /\ {n \in DOMAIN nodes : IsLinkId(n)} = {link_id}
             /\ {call.node, call.next} \subseteq DOMAIN nodes
             /\ Neighbours(link_id) = {call.node, call.next}
             /\ link_id \in Neighbours(call.node)
             /\ link_id \in Neighbours(call.next)
             /\ call.next \notin Neighbours(call.node)
             /\ call.node \notin Neighbours(call.next)
             /\ iso[call.node] = link_id
        /\ pc \in {"ul_link_ham", "ul_evolve"} =>
             ExactEntry(<<call.node, call.next>>)
        /\ pc = "ul_evolve" => <<call.node, call.next>> \in reads

\* the link Hamiltonian of the first link update of a later time step is in
\* use: the cache still holds outdated entries of the time step before, and
\* entry (current, next) is not one of them
C4_Witness ==
    /\ pc = "ul_evolve"
    /\ driver = "run"
    /\ idx = 1
    /\ \E k \in DOMAIN cache : ~cache[k].fresh
    /\ <<call.node, call.next>> \in reads
    /\ ExactEntry(<<call.node, call.next>>)

\* the neighbour of n on the tree path to c
Toward(N, n, c) ==
    CHOOSE m \in DOMAIN N : Adjacent(N, n, m) /\ c \in Reach(N, {m}, {n})

(***************************************************************************)
(* C5  Canonical form.  Once the engine is constructed, after every move   *)
(* of the orthogonality center, every split and every merge, the tensor of *)
(* every node other than the center (during a link update: other than the  *)
(* link node) is an isometry pointing to its neighbour toward the center,  *)
(* and outside a link update the center is the recorded orthogonality      *)
(* center.                                                                 *)
(***************************************************************************)
C5_CanonicalForm ==
    pc # "build" =>
        /\ DOMAIN iso = DOMAIN nodes
        /\ ~LinkNodePresent => EffectiveCenter = orthogonality_center_id
        /\ \A n \in DOMAIN nodes :
             iso[n] = IF n = EffectiveCenter THEN None
                      ELSE Toward(nodes, n, EffectiveCenter)

\* a sweep has split, merged and moved the center several times
C5_Witness ==
    /\ driver = "run"
    /\ pc = "site_evolve"
    /\ idx >= 3
    /\ orthogonality_center_id = update_path[idx]
    /\ \A n \in DOMAIN nodes \ {orthogonality_center_id} :
         iso[n] = Toward(nodes, n, orthogonality_center_id)

\* the engine has been constructed and nothing has been done with it
Constructed == pc = "constructed"

\* the place of node n in update_path
Place(n) == IndexOf(update_path, n)

(***************************************************************************)
(* C6  update_path, as computed when the engine is constructed, holds      *)
(* every node identifier of the tree exactly once, and it is the value the *)
(* planner gives for the tree as it is stored (parents and child order):   *)
(* nothing else decides it.                                                *)
(***************************************************************************)
C6_UpdatePathPermutation ==
    Constructed =>
        /\ Len(update_path) = Cardinality(DOMAIN nodes)
        /\ Range(update_path) = DOMAIN nodes
        /\ update_path = find_update_path(nodes, root_id)

\* a tree with branches on both sides of the root
C6_Witness ==
    /\ Constructed
    /\ Len(update_path) >= 5
    /\ Len(nodes[root_id].children) >= 2
    /\ Range(update_path) = DOMAIN nodes
    /\ update_path[1] # root_id
    /\ update_path[Len(update_path)] # root_id

C8_OrthogonalizationPath ==
    Constructed =>
        /\ Len(orthogonalization_path) = Len(update_path) - 1
        /\ \A i \in 1..Len(orthogonalization_path) :
             LET entry == orthogonalization_path[i]
             IN  /\ Len(entry) >= 1
                 /\ entry[Len(entry)] = update_path[i + 1]
                 /\ Adjacent(nodes, update_path[i], entry[1])
                 /\ \A j \in 1..(Len(entry) - 1) :
                      Adjacent(nodes, entry[j], entry[j + 1])
                 /\ update_path[i] \notin Range(entry)
                 /\ Cardinality(Range(entry)) = Len(entry)

\* a move of the center that passes two nodes before it arrives
C8_Witness ==
    /\ Constructed
    /\ \E i \in 1..Len(orthogonalization_path) :
         /\ Len(orthogonalization_path[i]) >= 3
         /\ orthogonalization_path[i][3] = update_path[i + 1]

\* _find_caching_path as the constructor calls it
CachingPlan == _find_caching_path(nodes, root_id, update_path)

(***************************************************************************)
(* C9  _find_caching_path gives a caching path that lists every node       *)
(* exactly once and ends with update_path[0], and a next-node dict whose   *)
(* keys are all nodes but update_path[0] and that maps every node to its   *)
(* neighbour on the tree path to update_path[0]; in the caching path every *)
(* node comes after all its neighbours other than the one the dict maps it *)
(* to.                                                                     *)
(***************************************************************************)
C9_CachingPath ==
    Constructed =>
        LET caching_path == CachingPlan[1]
            next_node_id_dict == CachingPlan[2]
        IN  /\ Len(caching_path) = Cardinality(DOMAIN nodes)
            /\ Range(caching_path) = DOMAIN nodes
            /\ caching_path[Len(caching_path)] = update_path[1]
            /\ DOMAIN next_node_id_dict = DOMAIN nodes \ {update_path[1]}
            /\ \A n \in DOMAIN next_node_id_dict :
                 next_node_id_dict[n] = Toward(nodes, n, update_path[1])
            /\ \A n \in DOMAIN nodes :
                 \A m \in Neighbours(n) :
                    \/ n # update_path[1] /\ m = next_node_id_dict[n]
                    \/ IndexOf(caching_path, m) < IndexOf(caching_path, n)

\* a node is mapped to one of its children, another to its parent, and a
\* node with two other neighbours comes after both
C9_Witness ==
    /\ Constructed
    /\ \E n \in DOMAIN CachingPlan[2] : nodes[CachingPlan[2][n]].parent = n
    /\ \E n \in DOMAIN CachingPlan[2] : nodes[n].parent = CachingPlan[2][n]
    /\ \E n \in DOMAIN CachingPlan[2] :
         /\ Cardinality(Neighbours(n)) >= 3
         /\ \A m \in Neighbours(n) \ {CachingPlan[2][n]} :
              IndexOf(CachingPlan[1], m) < IndexOf(CachingPlan[1], n)

(***************************************************************************)
(* C10  Right after the engine is constructed the cache holds an entry     *)
(* (n, next_node_id_dict[n]) for every node n other than update_path[0],   *)
(* and so an entry (m, update_path[0]) for every neighbour m of            *)
(* update_path[0]: the first site update finds all the entries it reads.   *)
(***************************************************************************)
C10_CacheAfterConstruction ==
    Constructed =>
        /\ \A n \in DOMAIN nodes \ {update_path[1]} :
             <<n, CachingPlan[2][n]>> \in DOMAIN cache
        /\ \A m \in Neighbours(update_path[1]) :
             <<m, update_path[1]>> \in DOMAIN cache
        /\ site_hamiltonian_keys(nodes, update_path[1]) \subseteq DOMAIN cache

\* a cache of five entries, one of them toward update_path[0]
C10_Witness ==
    /\ Constructed
    /\ Cardinality(DOMAIN cache) >= 5
    /\ \E m \in DOMAIN nodes : <<m, update_path[1]>> \in DOMAIN cache

\* the tree of the tests' small state: a root with two leaves as children
ThreeNodeChain ==
    /\ Cardinality(DOMAIN nodes) = 3
    /\ Len(nodes[root_id].children) = 2

(***************************************************************************)
(* C11  For the chain c1 - root - c2 (root with children c1, c2 in that    *)
(* order) the planners give update_path = [c1, root, c2],                  *)
(* orthogonalization_path = [[root], [c2]], caching path [c2, root, c1]    *)
(* and next-node dict {c2: root, root: c1}.                                *)
(***************************************************************************)
C11_ThreeNodeChainPaths ==
    Constructed /\ ThreeNodeChain =>
        LET c1 == nodes[root_id].children[1]
            c2 == nodes[root_id].children[2]
        IN  /\ update_path = <<c1, root_id, c2>>
            /\ orthogonalization_path = <<<<root_id>>, <<c2>>>>
            /\ CachingPlan[1] = <<c2, root_id, c1>>
            /\ CachingPlan[2] = (c2 :> root_id @@ root_id :> c1)

\* the engine constructed on the chain whose root was added after its first
\* child
C11_Witness ==
    /\ Constructed
    /\ ThreeNodeChain
    /\ nodes[root_id].children = <<"n0", "n2">>
    /\ update_path = <<"n0", "n1", "n2">>
    /\ DOMAIN cache = {<<"n2", "n1">>, <<"n1", "n0">>}

\* _move_orth_and_update_cache_for_path is entered with a path that asks for
\* no move
NoOpMoveCall ==
    /\ pc = "move"
    /\ \/ call.path = <<>>
       \/ call.path = <<orthogonality_center_id>>

(***************************************************************************)
(* C12  _move_orth_and_update_cache_for_path called with the empty path or *)
(* with the one-element path [orthogonality center] raises nothing and     *)
(* leaves the orthogonality center, the nodes, the tensors and the cache   *)
(* as they are.                                                            *)
(***************************************************************************)
C12_NoOpMove ==
    [][NoOpMoveCall =>
         /\ err' = "none"
         /\ pc' \in {"ready", "site_ham"}
         /\ UNCHANGED <<nodes, root_id, orthogonality_center_id, iso, cache>>]_vars

\* within a time step the move that follows a link update to a neighbour has
\* returned: its path was the one-element path of the node the center is at
C12_Witness ==
    /\ driver = "run"
    /\ pc = "site_ham"
    /\ idx >= 2
    /\ orthogonalization_path[idx - 1] = <<orthogonality_center_id>>
    /\ orthogonality_center_id = update_path[idx]
    /\ err = "none"

\* neither node is the parent of the other
NoConnection(a, b) == ~Adjacent(nodes, a, b)

\* _split_updated_site is about to act on two nodes that are not connected
SplitOfUnconnected == pc = "ul_split" /\ NoConnection(call.node, call.next)

\* op has just been called on two nodes that are not connected
CalledOnUnconnected(op) ==
    /\ pc = "build"
    /\ call'.op = op
    /\ NoConnection(call'.node, call'.next)

\* the call has raised exception e and the tree is as before
RaisesAndKeepsTree(e) == err' = e /\ UNCHANGED <<nodes, root_id>>

(***************************************************************************)
(* C13 as stated  _split_updated_site, contract_nodes and                  *)
(* TreeStructure.combine_nodes, called on two nodes neither of which is    *)
(* the parent of the other, raise NoConnectionException and leave the tree *)
(* unchanged.                                                              *)
(***************************************************************************)
C13_NoConnectionException ==
    [][/\ SplitOfUnconnected => RaisesAndKeepsTree("NoConnectionException")
       /\ CalledOnUnconnected("contract_nodes") =>
            RaisesAndKeepsTree("NoConnectionException")
       /\ CalledOnUnconnected("combine_nodes") =>
            RaisesAndKeepsTree("NoConnectionException")]_vars

(***************************************************************************)
(* C13  _split_updated_site and contract_nodes, called on two nodes        *)
(* neither of which is the parent of the other, raise                      *)
(* NoConnectionException; TreeStructure.combine_nodes raises ValueError    *)
(* (from determine_parentage).  In each case the tree is unchanged.        *)
(***************************************************************************)
C13_NoConnectionErrors ==
    [][/\ SplitOfUnconnected =>
            /\ RaisesAndKeepsTree("NoConnectionException")
            /\ UNCHANGED <<iso, cache, orthogonality_center_id>>
       /\ CalledOnUnconnected("contract_nodes") =>
            RaisesAndKeepsTree("NoConnectionException")
       /\ CalledOnUnconnected("combine_nodes") =>
            RaisesAndKeepsTree("ValueError")]_vars

\* contract_nodes has failed on two leaves of the same parent
C13_Witness ==
    /\ pc = "contracted"
    /\ err = "NoConnectionException"
    /\ nodes[call.node].parent = nodes[call.next].parent
    /\ is_leaf(nodes[call.node])
    /\ is_leaf(nodes[call.next])

\* a node has just been split toward a neighbour and the link node merged
\* into that neighbour
SplitAndMergeDone == pc = "build" /\ call'.op = "split_node, combine_nodes"

\* the tree has the same identifiers, root and parents as before
SameParents ==
    /\ DOMAIN nodes' = DOMAIN nodes
    /\ root_id' = root_id
    /\ \A n \in DOMAIN nodes : nodes'[n].parent = nodes[n].parent

(***************************************************************************)
(* C14 as stated  Splitting N toward an adjacent node M and merging the    *)
(* link node into M gives back the tree: same identifiers, same root, same *)
(* parent and same ordered children for every node.                        *)
(***************************************************************************)
C14_SplitMergeKeepsTree ==
    [][SplitAndMergeDone =>
         /\ err' = "none"
         /\ SameParents
         /\ \A n \in DOMAIN nodes : nodes'[n].children = nodes[n].children]_vars

(***************************************************************************)
(* C14  Splitting N toward an adjacent node M and merging the link node    *)
(* into M gives a tree with the same identifiers, the same root and the    *)
(* same parent for every node, and the same ordered children for every     *)
(* node but the upper one of N and M: when M is a child of N, M is moved   *)
(* to the end of the children of N; when N is a child of M, N is moved to  *)
(* the front of the children of M.                                         *)
(***************************************************************************)
C14_SplitMergeKeepsParents ==
    [][SplitAndMergeDone =>
         LET N == call'.node
             M == call'.next
             upper == IF nodes[M].parent = N THEN N ELSE M
         IN  /\ err' = "none"
             /\ SameParents
             /\ \A n \in DOMAIN nodes \ {upper} :
                  nodes'[n].children = nodes[n].children
             /\ nodes'[upper].children =
                  IF upper = N
                  THEN Append(RemoveFirst(nodes[N].children, M), M)
                  ELSE <<N>> \o RemoveFirst(nodes[M].children, N)]_vars

\* the link update of a middle child: after it the child is the first of
\* three children
C14_Witness ==
    /\ pc = "restructured"
    /\ call.op = "split_node, combine_nodes"
    /\ err = "none"
    /\ nodes[call.node].parent = call.next
    /\ nodes[call.next].children = <<"n2", "n1", "n3">>

\* N with root r is a tree: one node without parent, which is r; parents and
\* children lists agree; every node is connected to r
WellFormed(N, r) ==
    /\ r \in DOMAIN N
    /\ {n \in DOMAIN N : N[n].parent = None} = {r}
    /\ \A n \in DOMAIN N \ {r} :
         /\ N[n].parent \in DOMAIN N
         /\ Cardinality({i \in 1..Len(N[N[n].parent].children) :
                            N[N[n].parent].children[i] = n}) = 1
    /\ \A n \in DOMAIN N : \A c \in Range(N[n].children) :
         c \in DOMAIN N /\ N[c].parent = n
    /\ Reach(N, {r}, {}) = DOMAIN N

(***************************************************************************)
(* C15  Every tree reached by add_root, add_child_to_parent,               *)
(* add_parent_to_root, combine_nodes and split_node (new identifiers       *)
(* unused or that of a node being replaced, split_node called with the     *)
(* neighbours of the old node divided between neighbours1 and neighbours2) *)
(* is well formed: exactly one node has no parent and root_id names it;    *)
(* every other node's parent is a node that lists it exactly once among    *)
(* its children; every listed child is a node with that node as parent;    *)
(* every node is connected to the root.                                    *)
(***************************************************************************)
C15_WellFormedTree ==
    root_id # None => WellFormed(nodes, root_id)

\* the root of a tree of five nodes has been split into two new nodes, each
\* with some of its children
C15_Witness ==
    /\ pc = "restructured"
    /\ call.op = "split_node"
    /\ err = "none"
    /\ Cardinality(DOMAIN nodes) = 6
    /\ call.node \notin DOMAIN nodes
    /\ nodes[call.next].parent = root_id
    /\ Len(nodes[call.next].children) >= 1
    /\ Len(nodes[root_id].children) >= 2
    /\ WellFormed(nodes, root_id)

\* combine_nodes has just merged a parent/child pair
CombineNodesDone ==
    /\ call'.op = "combine_nodes"
    /\ pc' # pc
    /\ err' = "none"

\* the position of x in the sequence s, 0 if it is not there
PositionIn(s, x) == IF x \in Range(s) THEN IndexOf(s, x) ELSE 0

(***************************************************************************)
(* C16  combine_nodes(node_id1, node_id2, new_identifier) on a parent and  *)
(* its child removes both and inserts one node named new_identifier        *)
(* (node_id1 + "contr" + node_id2 when none is given); its parent is the   *)
(* former parent of the upper node (it is the root if the upper node was); *)
(* it stands where the upper node stood among the grandparent's children;  *)
(* its children are those of node_id1 followed by those of node_id2,       *)
(* without the contracted child; each of them has it as parent; the tree   *)
(* has one node less.                                                      *)
(***************************************************************************)
C16_CombineNodesResult ==
    [][CombineNodesDone =>
         LET node_id1 == call'.node
             node_id2 == call'.next
             new_identifier == call'.path[1]
             id == IF new_identifier = "" THEN node_id1 \o "contr" \o node_id2
                   ELSE new_identifier
             upper == IF nodes[node_id2].parent = node_id1 THEN node_id1
                      ELSE node_id2
             lower == IF upper = node_id1 THEN node_id2 ELSE node_id1
             grandparent == nodes[upper].parent
             without_lower(c) == SelectSeq(c, LAMBDA x : x # lower)
         IN  /\ DOMAIN nodes' = (DOMAIN nodes \ {node_id1, node_id2}) \cup {id}
             /\ Cardinality(DOMAIN nodes') = Cardinality(DOMAIN nodes) - 1
             /\ nodes'[id].parent = grandparent
             /\ root_id' = IF upper = root_id THEN id ELSE root_id
             /\ grandparent # None =>
                  /\ Len(nodes'[grandparent].children)
                       = Len(nodes[grandparent].children)
                  /\ PositionIn(nodes'[grandparent].children, id)
                       = PositionIn(nodes[grandparent].children, upper)
             /\ nodes'[id].children =
                  without_lower(nodes[node_id1].children)
                    \o without_lower(nodes[node_id2].children)
             /\ \A c \in Range(nodes'[id].children) : nodes'[c].parent = id]_vars

\* a node has been merged with its parent, the second child of the root,
\* under the default identifier; the new node stands second among the
\* children of the root and has a child
C16_Witness ==
    /\ pc = "restructured"
    /\ call.op = "combine_nodes"
    /\ err = "none"
    /\ call.path = <<"">>
    /\ call.node \o "contr" \o call.next \in DOMAIN nodes
    /\ LET id == call.node \o "contr" \o call.next
       IN  /\ nodes[id].parent = root_id
           /\ Len(nodes[root_id].children) = 2
           /\ nodes[root_id].children[2] = id
           /\ Len(nodes[id].children) >= 1

\* the constructor of TimeEvolution has been called with a time step or a
\* final time that is not positive
NonpositiveGiven ==
    /\ call.op = "TimeEvolution"
    /\ call.time_step_size <= 0 \/ call.final_time <= 0

(***************************************************************************)
(* C17  Constructing a TimeEvolution with time_step_size <= 0 or with      *)
(* final_time <= 0 raises ValueError and leaves no object; every           *)
(* TimeEvolution that exists, and so every one that is run, has a positive *)
(* time step and a positive final time.                                    *)
(***************************************************************************)
C17_NonpositiveRejected ==
    /\ NonpositiveGiven =>
         pc = "raised" /\ err = "ValueError" /\ evolution = NoObject
    /\ evolution.class = "TimeEvolution" =>
         evolution.time_step_size > 0 /\ evolution.final_time > 0

\* the constructor has been called with time step 0 and a positive final time
C17_Witness ==
    /\ pc = "raised"
    /\ call.op = "TimeEvolution"
    /\ call.time_step_size = 0
    /\ call.final_time > 0
    /\ err = "ValueError"

\* an item that is an int or a tuple of length 2
WellFormedItem(item) ==
    item.type = "int" \/ (item.type = "tuple" /\ Len(item.value) = 2)

(***************************************************************************)
(* C18 as stated  TrotterSplitting.__init__ rejects every splitting with   *)
(* an item that is not an int or a tuple of length 2, so every split that  *)
(* exponentiate_splitting meets is a pair (index, factor).                 *)
(***************************************************************************)
C18_MalformedSplittingRejected ==
    /\ ( /\ call.op = "TrotterSplitting"
         /\ ~call.splitting.is_none
         /\ \E i \in 1..Len(call.splitting.items) :
              ~WellFormedItem(call.splitting.items[i]) )
       => pc = "raised" /\ trotter = NoObject
    /\ trotter.class = "TrotterSplitting" =>
         \A i \in 1..Len(trotter.splitting) : Len(trotter.splitting[i]) = 2

\* run has returned
RunReturned == pc = "returned" /\ call.op = "run"

\* the number of columns of the results of the run in progress
Columns == (evolution.num_time_steps \div call.evaluation_time) + 1

(***************************************************************************)
(* C19  When run(evaluation_time = e), e >= 1, returns, run_one_time_step  *)
(* has been called num_time_steps times; the operators have been evaluated *)
(* before the first step and after every e-th step; results has            *)
(* len(operators) + 1 rows and num_time_steps // e + 1 columns, all        *)
(* written; column k holds the expectation values of the state after k*e   *)
(* steps and, in the last row, the time k * e * time_step_size.            *)
(***************************************************************************)
C19_RunResults ==
    RunReturned =>
        LET e == call.evaluation_time
            rows == Len(evolution.operators) + 1
            array == results(evolution).returned
        IN  /\ evolution.steps = evolution.num_time_steps
            /\ evolution.evaluations = [k \in 1..Columns |-> (k - 1) * e]
            /\ results(evolution).err = "none"
            /\ Len(array) = rows
            /\ \A r \in 1..rows : Len(array[r]) = Columns
            /\ evolution.written = 0..(Columns - 1)
            /\ \A k \in 0..(Columns - 1) :
                 /\ \A r \in 1..(rows - 1) :
                      array[r][k + 1] =
                        ExpectationValue(evolution.operators[r],
                                         evolution.start + k * e)
                 /\ array[rows][k + 1] = k * e * evolution.time_step_size

\* a run of five time steps with two operators, evaluated every second step,
\* has returned
C19_Witness ==
    /\ RunReturned
    /\ call.evaluation_time = 2
    /\ evolution.num_time_steps = 5
    /\ Len(evolution.operators) = 2
    /\ evolution.time_step_size = 2
    /\ Len(evolution.results[1]) = 3
    /\ evolution.results[3][3] = 8

(***************************************************************************)
(* C20 as stated  An error raised by run_one_time_step or by an operator   *)
(* evaluation leaves run(): the error is the outcome of the run and no     *)
(* later step or evaluation is executed; after such a failed run the       *)
(* results property does not return a partially written array.             *)
(***************************************************************************)
C20_FailedRunHidesResults ==
    pc = "run_raised" =>
        /\ err # "none"
        /\ ~ENABLED RunLoop
        /\ results(evolution).err = "none" =>
             evolution.written = 0..(Columns - 1)

\* the pair names two nodes of the tree that are neighbours of each other
\* and have the same open dimension
CompatiblePair(swap_pair, open_dimension) ==
    /\ swap_pair[1] \in DOMAIN nodes
    /\ swap_pair[2] \in DOMAIN nodes
    /\ Adjacent(nodes, swap_pair[1], swap_pair[2])
    /\ open_dimension[swap_pair[1]] = open_dimension[swap_pair[2]]

(***************************************************************************)
(* C21 as stated  is_compatible_with_ttn returns True exactly when every   *)
(* pair of the list names two nodes of the TTN that are neighbours of each *)
(* other and have the same open dimension, and False otherwise.            *)
(***************************************************************************)
C21_CompatibleExactlyNeighbours ==
    (pc = "checked" /\ call.op = "is_compatible_with_ttn") =>
        /\ err = "none"
        /\ call.returned =
             \A i \in 1..Len(call.swap_list) :
                CompatiblePair(call.swap_list[i], call.open_dimension)

\* the constructor of TrotterStep has been called with swaps_before or
\* swaps_after left at None
SwapsLeftAtNone ==
    /\ call.op = "TrotterStep"
    /\ call.swaps_before.is_none \/ call.swaps_after.is_none

(***************************************************************************)
(* C22 as stated  A TrotterStep constructed with swaps_before and/or       *)
(* swaps_after left at None is created and holds an empty SWAPlist for     *)
(* each argument left at None.                                             *)
(***************************************************************************)
C22_DefaultSwapsEmpty ==
    SwapsLeftAtNone =>
        /\ err = "none"
        /\ pc = "step_ready"
        /\ trotter.class = "TrotterStep"
        /\ call.swaps_before.is_none => trotter.swaps_before = <<>>
        /\ call.swaps_after.is_none => trotter.swaps_after = <<>>

\* the number of operators the entries before entry i contribute
RECURSIVE OperatorsBefore(_, _)
OperatorsBefore(T, i) ==
    IF i <= 1 THEN 0
    ELSE OperatorsBefore(T, i - 1)
           + Len(T.swaps_before[i - 1]) + 1 + Len(T.swaps_after[i - 1])

\* exponentiate_splitting has returned its list of operators
SplittingExponentiated ==
    pc = "exponentiated" /\ call.op = "exponentiate_splitting" /\ err = "none"

(***************************************************************************)
(* C23  exponentiate_splitting returns the operators in the order of       *)
(* application: entry i contributes the operators of swaps_before[i] in    *)
(* list order, then the exponential of tensor_products[splitting[i][0]]    *)
(* with factor -i * splitting[i][1] * delta_time, then the operators of    *)
(* swaps_after[i] in list order; the list has n plus the lengths of all    *)
(* SWAPlists elements; with no splitting given the entries are all tensor  *)
(* products in list order with factor 1.                                   *)
(***************************************************************************)
C23_ExponentiateSplittingOrder ==
    /\ (pc = "splitting_ready" /\ call.op = "TrotterSplitting"
          /\ call.splitting.is_none) =>
           trotter.splitting =
             [i \in 1..Len(trotter.tensor_products) |-> <<i - 1, 1>>]
    /\ SplittingExponentiated =>
         LET n == Len(trotter.splitting)
         IN  /\ Len(call.returned) = OperatorsBefore(trotter, n + 1)
             /\ \A i \in 1..n :
                  LET at == OperatorsBefore(trotter, i)
                      before == trotter.swaps_before[i]
                      after == trotter.swaps_after[i]
                  IN  /\ \A k \in 1..Len(before) :
                           call.returned[at + k] =
                             SwapOperator(before[k], call.dim)
                      /\ call.returned[at + Len(before) + 1] =
                           Exponential(
                             trotter.tensor_products[trotter.splitting[i][1] + 1],
                             -(trotter.splitting[i][2] * call.delta_time))
                      /\ \A k \in 1..Len(after) :
                           call.returned[at + Len(before) + 1 + k] =
                             SwapOperator(after[k], call.dim)

\* a splitting of two entries has been exponentiated and its second entry has
\* one swap before and two different swaps after
C23_Witness ==
    /\ SplittingExponentiated
    /\ Len(trotter.splitting) = 2
    /\ trotter.splitting[1] # trotter.splitting[2]
    /\ Len(trotter.swaps_before[2]) = 1
    /\ Len(trotter.swaps_after[2]) = 2
    /\ trotter.swaps_after[2][1] # trotter.swaps_after[2][2]
    /\ Len(call.returned) = 6

(***************************************************************************)
(* C24 as stated  Node.add_parent(parent_id) sets parent_id as the parent  *)
(* of the node, whether the node had a parent before (which is replaced)   *)
(* or not.                                                                 *)
(***************************************************************************)
C24_AddParentReplaces ==
    (pc = "parent_added" /\ call.op = "add_parent") =>
        /\ err = "none"
        /\ nodes[call.node].parent = call.next

(***************************************************************************)
(* C27 as stated  A call of add_child_to_parent or add_parent_to_root that *)
(* raises leaves the node dictionary, root_id and the parent and children  *)
(* of every node as they were before the call.                             *)
(***************************************************************************)
C27_ConstructionAtomic ==
    [][(pc' = "raised"
          /\ call'.op \in {"add_child_to_parent", "add_parent_to_root"}) =>
         (nodes' = nodes /\ root_id' = root_id)]_vars

(***************************************************************************)
(* C25  time_evolve applies exp(-i*H*dt) when forward is True and          *)
(* exp(+i*H*dt) when forward is False, with the time difference it is      *)
(* given; every site update of the engine is a forward evolution and every *)
(* link update a backward evolution, both over the engine's time step.     *)
(***************************************************************************)
C25_EvolutionDirections ==
    evolution.class = "evolved" =>
        /\ evolution.forward => evolution.coefficient = -evolution.time_difference
        /\ ~evolution.forward => evolution.coefficient = evolution.time_difference
        /\ evolution.time_difference = TDVPTimeStep
        /\ evolution.hamiltonian[1] = "site" =>
             /\ evolution.forward
             /\ evolution.coefficient = -TDVPTimeStep
        /\ evolution.hamiltonian[1] = "link" =>
             /\ ~evolution.forward
             /\ evolution.coefficient = TDVPTimeStep

\* within one time step a link tensor has been evolved after a site update
C25_Witness ==
    /\ driver = "run"
    /\ pc = "ul_merge"
    /\ evolution.class = "evolved"
    /\ evolution.hamiltonian = <<"link", call.node, call.next>>
    /\ evolution.coefficient > 0

\* split_node has just been called on the tree
SplitNodeCalled ==
    /\ call'.op = "split_node"
    /\ pc' \in {"restructured", "restructured_again"}
    /\ pc' # pc

(***************************************************************************)
(* C26  split_node(old, node1_id, neighbours1, node2_id, neighbours2): if  *)
(* old is the root, node1 becomes the new root and the parent of node2;    *)
(* otherwise the new node whose list contains the parent of old becomes    *)
(* the parent, takes the place of old among the children of the            *)
(* grandparent, and the other new node becomes its last child; every       *)
(* former child of old has as parent the new node whose list named it; old *)
(* is removed unless a new identifier equals it; when old is not the root  *)
(* and its parent is in neither list, AssertionError is raised and the     *)
(* tree is unchanged.                                                      *)
(***************************************************************************)
C26_SplitNodeResult ==
    [][SplitNodeCalled =>
        LET old == call'.node
            node == nodes[old]
            node1_id == call'.node1_id
            node2_id == call'.next
            neighbours1 == call'.path
            neighbours2 == call'.neighbours2
            first_named == InSeq(node.parent, neighbours1)
            upper == IF node.parent = None \/ first_named
                     THEN node1_id ELSE node2_id
            lower == IF upper = node1_id THEN node2_id ELSE node1_id
        IN  IF node.parent # None /\ ~first_named
                 /\ ~InSeq(node.parent, neighbours2)
            THEN /\ err' = "AssertionError"
                 /\ nodes' = nodes
                 /\ root_id' = root_id
            ELSE /\ err' = "none"
                 /\ DOMAIN nodes' = (DOMAIN nodes \ {old}) \cup {node1_id, node2_id}
                 /\ IF node.parent = None
                    THEN /\ root_id' = node1_id
                         /\ nodes'[node1_id].parent = None
                         /\ nodes'[node2_id].parent = node1_id
                    ELSE /\ root_id' = root_id
                         /\ nodes'[upper].parent = node.parent
                         /\ nodes'[node.parent].children =
                              [i \in 1..Len(nodes[node.parent].children) |->
                                 IF nodes[node.parent].children[i] = old
                                 THEN upper
                                 ELSE nodes[node.parent].children[i]]
                 /\ nodes'[lower].parent = upper
                 /\ nodes'[upper].children[Len(nodes'[upper].children)] = lower
                 /\ \A c \in Range(node.children) :
                      /\ InSeq(c, neighbours1) => nodes'[c].parent = node1_id
                      /\ InSeq(c, neighbours2) => nodes'[c].parent = node2_id
    ]_vars

\* a node with a parent and two children has been split into two new nodes,
\* the lower one taking a child
C26_Witness ==
    /\ pc = "restructured"
    /\ call.op = "split_node"
    /\ err = "none"
    /\ call.node \notin DOMAIN nodes
    /\ root_id \notin {call.node1_id, call.next}
    /\ nodes[call.node1_id].parent = call.next
    /\ Len(nodes[call.node1_id].children) = 1
    /\ Len(nodes[call.next].children) = 2
    /\ nodes[call.next].parent # None

\* a TimeEvolution has been constructed
EvolutionConstructed == evolution.class = "TimeEvolution"

(***************************************************************************)
(* C29 as stated  For every accepted configuration num_time_steps is at    *)
(* least 1 and num_time_steps * time_step_size is at least final_time;     *)
(* num_time_steps is floor(final_time / time_step_size) when the           *)
(* fractional part of the quotient is below 0.1 and floor + 1 otherwise.   *)
(***************************************************************************)
C29_StepsReachFinalTime ==
    EvolutionConstructed =>
        LET time_step_size == evolution.time_step_size
            final_time == evolution.final_time
            floor == final_time \div time_step_size
        IN  /\ evolution.num_time_steps >= 1
            /\ evolution.num_time_steps * time_step_size >= final_time
            /\ evolution.num_time_steps =
                 IF 10 * (final_time % time_step_size) < time_step_size
                 THEN floor ELSE floor + 1

(***************************************************************************)
(* C29 amended  For every accepted configuration num_time_steps is         *)
(* floor(final_time / time_step_size) when the fractional part of the      *)
(* quotient is below 0.1 and floor + 1 otherwise; so                       *)
(* num_time_steps * time_step_size falls short of final_time by less than  *)
(* a tenth of a time step, if at all, and num_time_steps is at least 1     *)
(* exactly when final_time is at least a tenth of time_step_size.          *)
(***************************************************************************)
C29_StepsWithinTenth ==
    EvolutionConstructed =>
        LET time_step_size == evolution.time_step_size
            final_time == evolution.final_time
            floor == final_time \div time_step_size
        IN  /\ evolution.num_time_steps =
                 IF 10 * (final_time % time_step_size) < time_step_size
                 THEN floor ELSE floor + 1
            /\ 10 * evolution.num_time_steps * time_step_size
                 > 10 * final_time - time_step_size
            /\ evolution.num_time_steps >= 1 <=> 10 * final_time >= time_step_size

\* a TimeEvolution whose steps end before final_time: 12 units in steps of 11
C29_Witness ==
    /\ EvolutionConstructed
    /\ evolution.time_step_size = 11
    /\ evolution.final_time = 12
    /\ evolution.num_time_steps = 1

(***************************************************************************)
(* C30 as stated  For every evaluation_time e >= 1 the last column of the  *)
(* results of run() holds the expectation values of the state after        *)
(* num_time_steps steps and the time num_time_steps * time_step_size, also *)
(* when num_time_steps is not a multiple of e.                             *)
(***************************************************************************)
C30_LastStepEvaluated ==
    RunReturned =>
        LET rows == Len(evolution.operators) + 1
            array == results(evolution).returned
        IN  /\ array[rows][Columns] =
                 evolution.num_time_steps * evolution.time_step_size
            /\ \A r \in 1..(rows - 1) :
                 array[r][Columns] =
                   ExpectationValue(evolution.operators[r],
                                    evolution.start + evolution.num_time_steps)

(***************************************************************************)
(* C30 amended  For every evaluation_time e >= 1 the last column of the    *)
(* results of run() holds the expectation values of the state after        *)
(* (num_time_steps // e) * e steps and the time of that many steps; this   *)
(* is the state after the last time step exactly when num_time_steps is a  *)
(* multiple of e; otherwise the last num_time_steps mod e steps are taken  *)
(* and their state is not evaluated.                                       *)
(***************************************************************************)
C30_LastColumnAtMultiple ==
    RunReturned =>
        LET rows == Len(evolution.operators) + 1
            array == results(evolution).returned
            e == call.evaluation_time
            last == (evolution.num_time_steps \div e) * e
        IN  /\ array[rows][Columns] = last * evolution.time_step_size
            /\ \A r \in 1..(rows - 1) :
                 array[r][Columns] =
                   ExpectationValue(evolution.operators[r], evolution.start + last)
            /\ state_of(evolution) = evolution.start + evolution.num_time_steps
            /\ state_of(evolution) = evolution.start + last
                 <=> evolution.num_time_steps % e = 0
            /\ state_of(evolution) - (evolution.start + last)
                 = evolution.num_time_steps % e

\* a run of five time steps with an operator, evaluated every third step, has
\* returned: the last column is that of step 3
C30_Witness ==
    /\ RunReturned
    /\ call.evaluation_time = 3
    /\ evolution.num_time_steps = 5
    /\ evolution.time_step_size = 2
    /\ Len(evolution.operators) = 1
    /\ results(evolution).returned[2][Columns] = 6

\* run has been entered and has evaluated the operators for column 0
FirstColumnWritten ==
    /\ EvolutionConstructed
    /\ pc \in {"running", "returned"}
    /\ call.op = "run"
    /\ 0 \in evolution.written

(***************************************************************************)
(* C28  The engine works on its own copy of the state: no sequence of      *)
(* run() and reset_to_initial_state() calls changes initial_state; after   *)
(* reset_to_initial_state() the working state equals initial_state; a      *)
(* run() that directly follows the construction or a reset records in      *)
(* column 0 the expectation values of the initial state; a run() that      *)
(* follows a run() without a reset records there those of the state the    *)
(* earlier runs have left, with the time entry 0 again.                    *)
(***************************************************************************)
C28_OwnCopyOfState ==
    EvolutionConstructed =>
        LET rows == Len(evolution.operators) + 1
            initial == evolution.objects[evolution.initial_state]
        IN  /\ initial = InitialValue
            /\ evolution.state # evolution.initial_state
            /\ (pc = "evolution_ready" /\ call.op = "reset_to_initial_state") =>
                 state_of(evolution) = initial
            /\ FirstColumnWritten =>
                 /\ evolution.results[rows][1] = 0
                 /\ call.after \in {"TimeEvolution", "reset_to_initial_state"} =>
                      \A r \in 1..(rows - 1) :
                         evolution.results[r][1] =
                           ExpectationValue(evolution.operators[r], initial)
                 /\ call.after = "run" =>
                      \A r \in 1..(rows - 1) :
                         evolution.results[r][1] =
                           ExpectationValue(evolution.operators[r],
                             initial + (evolution.runs - 1) * evolution.num_time_steps)

\* an engine of two time steps has been run twice without a reset in between:
\* the second run has returned, its column 0 is that of the state after two
\* steps, and the initial state is as it was given
C28_Witness ==
    /\ FirstColumnWritten
    /\ pc = "returned"
    /\ call.after = "run"
    /\ evolution.runs = 2
    /\ evolution.num_time_steps = 2
    /\ Len(evolution.operators) = 1
    /\ state_of(evolution) = 4
    /\ evolution.objects[evolution.initial_state] = InitialValue
    /\ evolution.results[1][1] = ExpectationValue(evolution.operators[1], 2)

====
